---- MODULE Spec2Model ----
(***************************************************************************)
(* btrpa-scan: the Detection & Resolution Engine of the BLE scanner.       *)
(*                                                                         *)
(* The module models BLEScanner (src/btrpa-scan.py and its packaged        *)
(* revision src/btrpa_scan/cli.py): the detection callback with its        *)
(* serialization lock, the per-address aggregation state, the RSSI         *)
(* smoother, the GPS stamping, and the scan() life cycle.                  *)
(*                                                                         *)
(* Python strings are sequences of one-character strings, bytes are        *)
(* integers 0..255, Optional values are sequences of length 0 or 1.        *)
(***************************************************************************)
EXTENDS Integers, Sequences, FiniteSets, TLC

\* ------------------------------------------------------------------------
\* Optional values
\* ------------------------------------------------------------------------
None == <<>>
Some(x) == <<x>>
IsNone(o) == Len(o) = 0
Get(o) == o[1]

\* ------------------------------------------------------------------------
\* Strings (sequences of characters)
\* ------------------------------------------------------------------------
LowerChars == <<"a", "b", "c", "d", "e", "f", "g", "t", "x", "z">>
UpperChars == <<"A", "B", "C", "D", "E", "F", "G", "T", "X", "Z">>

\* str.upper() on one character
UpperChar(c) ==
    IF \E i \in 1..Len(LowerChars) : LowerChars[i] = c
    THEN UpperChars[CHOOSE i \in 1..Len(LowerChars) : LowerChars[i] = c]
    ELSE c

\* str.lower() on one character
LowerChar(c) ==
    IF \E i \in 1..Len(UpperChars) : UpperChars[i] = c
    THEN LowerChars[CHOOSE i \in 1..Len(UpperChars) : UpperChars[i] = c]
    ELSE c

Upper(s) == [i \in 1..Len(s) |-> UpperChar(s[i])]
Lower(s) == [i \in 1..Len(s) |-> LowerChar(s[i])]

\* Python's `sub in s` on strings
Contains(s, sub) ==
    \E i \in 0..(Len(s) - Len(sub)) :
        \A j \in 1..Len(sub) : s[i + j] = sub[j]

\* a replace that changes nothing
KeepChars(s, old, new) == s

\* str.replace(old, new) for a one-character old and a new of length 0 or 1
RECURSIVE ReplaceChar(_, _, _)
ReplaceChar(s, old, new) ==
    IF s = <<>> THEN <<>>
    ELSE (IF Head(s) = old THEN new ELSE <<Head(s)>>)
         \o ReplaceChar(Tail(s), old, new)

\* ------------------------------------------------------------------------
\* Rounding: Python's round(num / den), den > 0 (round half to even)
\* ------------------------------------------------------------------------
PyRound(num, den) ==
    LET q == num \div den
        r == num - q * den
    IN  IF 2 * r < den THEN q
        ELSE IF 2 * r > den THEN q + 1
        ELSE IF q % 2 = 0 THEN q ELSE q + 1

RECURSIVE Sum(_)
Sum(s) == IF s = <<>> THEN 0 ELSE Head(s) + Sum(Tail(s))

Max(a, b) == IF a >= b THEN a ELSE b

\* ------------------------------------------------------------------------
\* Bytes and AES-128 (the single-block ECB encryption _bt_ah performs)
\* ------------------------------------------------------------------------
RECURSIVE BitXor(_, _)
BitXor(a, b) ==
    IF a = 0 THEN b
    ELSE IF b = 0 THEN a
    ELSE ((a + b) % 2) + 2 * BitXor(a \div 2, b \div 2)

\* tuples are built element by element so that each byte is computed once
Tup4(f) == <<f[1], f[2], f[3], f[4]>>
Tup16(f) ==
    <<f[1], f[2], f[3], f[4], f[5], f[6], f[7], f[8],
      f[9], f[10], f[11], f[12], f[13], f[14], f[15], f[16]>>

XorWord(x, y) == Tup4([i \in 1..4 |-> BitXor(x[i], y[i])])
XorBlock(x, y) == Tup16([i \in 1..16 |-> BitXor(x[i], y[i])])

Sbox == <<
     99, 124, 119, 123, 242, 107, 111, 197,  48,   1, 103,  43, 254, 215, 171, 118,
    202, 130, 201, 125, 250,  89,  71, 240, 173, 212, 162, 175, 156, 164, 114, 192,
    183, 253, 147,  38,  54,  63, 247, 204,  52, 165, 229, 241, 113, 216,  49,  21,
      4, 199,  35, 195,  24, 150,   5, 154,   7,  18, 128, 226, 235,  39, 178, 117,
      9, 131,  44,  26,  27, 110,  90, 160,  82,  59, 214, 179,  41, 227,  47, 132,
     83, 209,   0, 237,  32, 252, 177,  91, 106, 203, 190,  57,  74,  76,  88, 207,
    208, 239, 170, 251,  67,  77,  51, 133,  69, 249,   2, 127,  80,  60, 159, 168,
     81, 163,  64, 143, 146, 157,  56, 245, 188, 182, 218,  33,  16, 255, 243, 210,
    205,  12,  19, 236,  95, 151,  68,  23, 196, 167, 126,  61, 100,  93,  25, 115,
     96, 129,  79, 220,  34,  42, 144, 136,  70, 238, 184,  20, 222,  94,  11, 219,
    224,  50,  58,  10,  73,   6,  36,  92, 194, 211, 172,  98, 145, 149, 228, 121,
    231, 200,  55, 109, 141, 213,  78, 169, 108,  86, 244, 234, 101, 122, 174,   8,
    186, 120,  37,  46,  28, 166, 180, 198, 232, 221, 116,  31,  75, 189, 139, 138,
    112,  62, 181, 102,  72,   3, 246,  14,  97,  53,  87, 185, 134, 193,  29, 158,
    225, 248, 152,  17, 105, 217, 142, 148, 155,  30, 135, 233, 206,  85,  40, 223,
    140, 161, 137,  13, 191, 230,  66, 104,  65, 153,  45,  15, 176,  84, 187,  22 >>

SubByte(b) == Sbox[b + 1]

\* multiplication by x in GF(2^8) modulo x^8 + x^4 + x^3 + x + 1
XTime(a) ==
    IF a >= 128 THEN BitXor((2 * a) % 256, 27) ELSE 2 * a

Mul3(a) == BitXor(XTime(a), a)

Rcon == <<1, 2, 4, 8, 16, 32, 64, 128, 27, 54>>

RotWord(w) == <<w[2], w[3], w[4], w[1]>>
SubWord(w) == Tup4([i \in 1..4 |-> SubByte(w[i])])

\* ws holds words 1..i-1 of the key schedule; the schedule has 44 words.
\* (The test on Len makes the word be computed before the next one is asked for.)
RECURSIVE ExpandKey(_, _)
ExpandKey(ws, i) ==
    IF i > 44 THEN ws
    ELSE LET prev == ws[i - 1]
             temp == IF (i - 1) % 4 = 0
                     THEN XorWord(SubWord(RotWord(prev)),
                                  <<Rcon[(i - 1) \div 4], 0, 0, 0>>)
                     ELSE prev
             word == XorWord(ws[i - 4], temp)
         IN  IF Len(word) = 4
             THEN ExpandKey(Append(ws, word), i + 1)
             ELSE ws

KeySchedule(key) ==
    ExpandKey(<< SubSeq(key, 1, 4), SubSeq(key, 5, 8),
                 SubSeq(key, 9, 12), SubSeq(key, 13, 16) >>, 5)

RoundKey(ws, r) ==
    ws[4 * r + 1] \o ws[4 * r + 2] \o ws[4 * r + 3] \o ws[4 * r + 4]

\* the state is held column by column: byte i is row (i-1)%4, column (i-1)\div 4
SubBytes(s) == Tup16([i \in 1..16 |-> SubByte(s[i])])

ShiftRows(s) ==
    Tup16([i \in 1..16 |->
        LET r == (i - 1) % 4
            c == (i - 1) \div 4
        IN  s[r + 4 * ((c + r) % 4) + 1]])

MixColumns(s) ==
    Tup16([i \in 1..16 |->
        LET r  == (i - 1) % 4
            c  == (i - 1) \div 4
            a0 == s[4 * c + ((r + 0) % 4) + 1]
            a1 == s[4 * c + ((r + 1) % 4) + 1]
            a2 == s[4 * c + ((r + 2) % 4) + 1]
            a3 == s[4 * c + ((r + 3) % 4) + 1]
        IN  BitXor(BitXor(XTime(a0), Mul3(a1)), BitXor(a2, a3))])

\* rounds r..10 applied to state s (each round's state is computed before
\* the next round starts)
RECURSIVE AesRounds(_, _, _)
AesRounds(s, ws, r) ==
    IF r = 10
    THEN XorBlock(ShiftRows(SubBytes(s)), RoundKey(ws, 10))
    ELSE LET next == XorBlock(MixColumns(ShiftRows(SubBytes(s))),
                              RoundKey(ws, r))
         IN  IF Len(next) = 16 THEN AesRounds(next, ws, r + 1) ELSE next

\* Cipher(algorithms.AES(key), modes.ECB()).encryptor() on one 16-byte block
AesEncryptBlock(key, block) ==
    LET ws == KeySchedule(key)
    IN  AesRounds(XorBlock(block, RoundKey(ws, 0)), ws, 1)

\* ------------------------------------------------------------------------
\* RPA resolver
\* ------------------------------------------------------------------------
Zeros13 == <<0, 0, 0, 0, 0, 0, 0, 0, 0, 0, 0, 0, 0>>

\* _bt_ah: AES-128-ECB(irk, 13 zero bytes || prand), last 3 bytes
_bt_ah(irk, prand) ==
    LET plaintext == Tup16(Zeros13 \o prand)
        ct == AesEncryptBlock(irk, plaintext)
    IN  SubSeq(ct, 14, 16)

\* a test of the length alone
IsSixBytes(addr_bytes) == Len(addr_bytes) = 6

\* _is_rpa: six bytes, top two bits of the first are 01
_is_rpa(addr_bytes) ==
    Len(addr_bytes) = 6 /\ (addr_bytes[1] \div 64) = 1

HexDigits ==
    <<"0", "1", "2", "3", "4", "5", "6", "7", "8", "9",
      "a", "b", "c", "d", "e", "f">>

IsHexChar(c) == \E i \in 1..16 : HexDigits[i] = LowerChar(c)
HexVal(c) == (CHOOSE i \in 1..16 : HexDigits[i] = LowerChar(c)) - 1

\* str.strip() of blanks
RECURSIVE LStrip(_)
LStrip(s) == IF s # <<>> /\ Head(s) = " " THEN LStrip(Tail(s)) ELSE s

RECURSIVE RStrip(_)
RStrip(s) ==
    IF s # <<>> /\ s[Len(s)] = " " THEN RStrip(SubSeq(s, 1, Len(s) - 1)) ELSE s

\* the digits of int(b, 16): hex digits, single underscores between them;
\* None stands for ValueError
RECURSIVE DigitsValue(_, _, _)
DigitsValue(s, acc, after_digit) ==
    IF s = <<>> THEN (IF after_digit THEN Some(acc) ELSE None)
    ELSE IF IsHexChar(Head(s))
         THEN DigitsValue(Tail(s), 16 * acc + HexVal(Head(s)), TRUE)
    ELSE IF Head(s) = "_" /\ after_digit
         THEN DigitsValue(Tail(s), acc, FALSE)
    ELSE None

\* int(b, 16) after the sign: an optional 0x or 0X prefix, then the digits
Unsigned(s) ==
    IF Len(s) >= 2 /\ s[1] = "0" /\ s[2] \in {"x", "X"}
    THEN LET body == SubSeq(s, 3, Len(s))
         IN  IF body # <<>> /\ Head(body) = "_"
             THEN DigitsValue(Tail(body), 0, FALSE)
             ELSE DigitsValue(body, 0, FALSE)
    ELSE DigitsValue(s, 0, FALSE)

\* int(b, 16): surrounding blanks and a sign are accepted; None stands for
\* ValueError
ParseHex(b) ==
    LET s == RStrip(LStrip(b))
    IN  IF s # <<>> /\ Head(s) = "+" THEN Unsigned(Tail(s))
        ELSE IF s # <<>> /\ Head(s) = "-"
        THEN LET v == Unsigned(Tail(s))
             IN  IF IsNone(v) THEN None ELSE Some(0 - Get(v))
        ELSE Unsigned(s)

\* str.split(sep) for a one-character separator
RECURSIVE SplitAcc(_, _, _, _)
SplitAcc(s, sep, cur, parts) ==
    IF s = <<>> THEN Append(parts, cur)
    ELSE IF Head(s) = sep
         THEN SplitAcc(Tail(s), sep, <<>>, Append(parts, cur))
         ELSE SplitAcc(Tail(s), sep, Append(cur, Head(s)), parts)

Split(s, sep) == SplitAcc(s, sep, <<>>, <<>>)

\* ------------------------------------------------------------------------
\* IRK strings
\* ------------------------------------------------------------------------
\* the whitespace str.strip() removes and bytes.fromhex() skips
Whitespace == {" ", "\t", "\n", "\r"}

\* str.strip()
RECURSIVE Strip(_)
Strip(s) ==
    IF s # <<>> /\ Head(s) \in Whitespace THEN Strip(Tail(s))
    ELSE IF s # <<>> /\ s[Len(s)] \in Whitespace
         THEN Strip(SubSeq(s, 1, Len(s) - 1))
    ELSE s

\* bytes.fromhex(s): pairs of hex digits, whitespace allowed between the
\* pairs; None stands for ValueError
RECURSIVE FromHex(_, _)
FromHex(s, acc) ==
    IF s = <<>> THEN Some(acc)
    ELSE IF Head(s) \in Whitespace THEN FromHex(Tail(s), acc)
    ELSE IF Len(s) >= 2 /\ IsHexChar(s[1]) /\ IsHexChar(s[2])
         THEN FromHex(Tail(Tail(s)), Append(acc, 16 * HexVal(s[1]) + HexVal(s[2])))
    ELSE None

\* _parse_irk(irk_string): the bytes returned; None stands for ValueError
_parse_irk(irk_string) ==
    LET stripped == Strip(irk_string)
        unprefixed == IF Len(stripped) >= 2
                         /\ Lower(SubSeq(stripped, 1, 2)) = <<"0", "x">>
                      THEN SubSeq(stripped, 3, Len(stripped))
                      ELSE stripped
        s == ReplaceChar(ReplaceChar(unprefixed, ":", <<>>), "-", <<>>)
    IN  IF Len(s) # 32 THEN None ELSE FromHex(s, <<>>)

\* `except ValueError: return False` around int(b, 16) and bytes(...)
ExceptValueError(calls) ==
    [result |-> FALSE, raised |-> FALSE, cipher_calls |-> calls]

\* one run of _resolve_rpa(irk, address): the value returned, whether an
\* exception left the function, and the calls of _bt_ah it made
ResolveRun(irk, address) ==
    LET parts == Split(ReplaceChar(address, "-", <<":">>), ":")
        no == [result |-> FALSE, raised |-> FALSE, cipher_calls |-> 0]
    IN  IF Len(parts) # 6 THEN no
        ELSE LET vals == [i \in 1..6 |-> ParseHex(parts[i])]
             IN  IF \E i \in 1..6 :
                       IsNone(vals[i]) \/ Get(vals[i]) < 0 \/ Get(vals[i]) > 255
                 THEN ExceptValueError(0)
                 ELSE LET addr_bytes == [i \in 1..6 |-> Get(vals[i])]
                      IN  IF ~_is_rpa(addr_bytes) THEN no
                          ELSE [result |-> _bt_ah(irk, SubSeq(addr_bytes, 1, 3))
                                              = SubSeq(addr_bytes, 4, 6),
                                raised |-> FALSE,
                                cipher_calls |-> 1]

\* _resolve_rpa(irk, address)
_resolve_rpa(irk, address) == ResolveRun(irk, address).result

\* ------------------------------------------------------------------------
\* Bounds and input pools
\* ------------------------------------------------------------------------
\* number of detection events the adapters submit in one behaviour
MaxEvents == 2
\* largest --rssi-window argument tried
MaxWindow == 2
\* number of direct calls of the smoother in one behaviour
MaxPushes == 4
\* number of stop() requests in one behaviour of the scan life cycle
MaxStops == 2
\* number of adapters (radio sessions) of the scan life cycle
MaxAdapters == 2
\* detection events of one behaviour of discover-all mode with returning devices
MaxVisits == 3
\* sockets the GPS reader opens in one behaviour
MaxSessions == 3
\* chunks the GPS reader receives in one behaviour
MaxLines == 3
\* status payloads the poll loop emits in one behaviour
MaxTicks == 1
\* calls of GuiServer.emit_device in one behaviour
MaxEmits == 3
\* /api/state requests in one behaviour
MaxReads == 1
\* values time.time() takes
MaxClock == 3
\* the cap of the GUI device cache (1000 in the source)
_GUI_MAX_DEVICES == 2

\* adapter sessions delivering callbacks concurrently
Threads == {1, 2}

AddrLower == <<"a","a",":","b","b",":","c","c",":","d","d",":","e","e",":","0","1">>
AddrUpper == <<"A","A",":","B","B",":","C","C",":","D","D",":","E","E",":","0","1">>
AddrOther == <<"A","A",":","B","B",":","C","C",":","D","D",":","E","E",":","0","2">>
\* p || ah(k, p) for the sample data of the Bluetooth Core Specification
AddrRpa   == <<"7","0",":","8","1",":","9","4",":","0","d",":","f","b",":","a","a">>
\* a CoreBluetooth identifier (128-bit UUID) in place of a MAC
AddrUuid  ==
    <<"1","2","3","4","5","6","7","8","-","1","2","3","4","-","1","2","3","4",
      "-","1","2","3","4","-","1","2","3","4","5","6","7","8","9","a","b","c">>

SampleIrk ==
    <<236, 2, 52, 163, 87, 200, 173, 5, 52, 16, 16, 166, 10, 57, 125, 155>>
OtherIrk ==
    <<1, 35, 69, 103, 137, 171, 205, 239, 1, 35, 69, 103, 137, 171, 205, 239>>

\* a key that resolves none of the addresses used
WrongIrk ==
    <<254, 220, 186, 152, 118, 84, 50, 16, 254, 220, 186, 152, 118, 84, 50, 16>>

\* p || ah(k, p) for OtherIrk and the prand 55 AA 33
AddrRpaOther == <<"5","5",":","A","A",":","3","3",":","B","7",":","2","8",":","0","2">>
\* a second CoreBluetooth identifier
AddrUuid2 ==
    <<"1","2","3","4","5","6","7","8","-","1","2","3","4","-","1","2","3","4",
      "-","1","2","3","4","-","1","2","3","4","5","6","7","8","9","a","b","d">>

NameTag   == <<"T", "a", "g">>
FilterTa  == <<"t", "A">>

RssiWeak   == 0 - 80
RssiStrong == 0 - 50
MinRssi    == 0 - 60

Rssis == {RssiWeak, RssiStrong}

Fixes == { [lat |-> 1, lon |-> 1, alt |-> None],
           [lat |-> 2, lon |-> 1, alt |-> Some(5)] }

\* ------------------------------------------------------------------------
\* State
\* ------------------------------------------------------------------------
VARIABLES
    cfg,               \* BLEScanner constructor arguments as __init__ stores them
    seen_count,        \* self.seen_count
    unique_devices,    \* self.unique_devices: address -> times seen
    unique_order,      \* the keys of self.unique_devices in insertion order
    resolved_devices,  \* self.resolved_devices: address -> IRK matches
    rpa_count,         \* self.rpa_count
    non_rpa_warned,    \* self.non_rpa_warned
    rssi_history,      \* self.rssi_history: address -> deque of readings
    device_best_gps,   \* self.device_best_gps: address -> {lat, lon, rssi}
    running,           \* self.running
    cb_lock,           \* self._cb_lock: 0 when free, else the holding thread
    gps_fix,           \* GpsdReader._fix
    pc,                \* per adapter thread: position in detection_callback
    ev,                \* per adapter thread: the (device, adv) being handled
    loc,               \* per adapter thread: locals of the handler
    emitted,           \* number of records handed to the sinks
    last_record,       \* the record handed to the sinks last
    warnings,          \* number of "cannot resolve" warnings raised
    submitted,         \* history: raw address -> events (or calls) made for it
    pushed,            \* history: address -> every reading given to _avg_rssi
    accepted,          \* history: address key -> events accepted for it
    scan,              \* the scan() task and its resources
    query,             \* a direct call of _resolve_rpa and what it returned
    reader,            \* the GpsdReader thread, its flags and its socket
    estimate,          \* a direct call of _estimate_distance and its outcome
    parse,             \* a direct call of _parse_irk and its outcome
    startup,           \* main(): its arguments, how far it got and what it printed
    mask,              \* a direct call of _mask_irk and its outcome
    status,            \* the poll loop's emit_status: its reads and its payload
    gui                \* the GuiServer: its device cache, its lock and its callers

aggregate == <<seen_count, unique_devices, unique_order, resolved_devices, rpa_count,
               non_rpa_warned, rssi_history, device_best_gps>>
sinks == <<emitted, last_record, warnings>>
vars == <<cfg, seen_count, unique_devices, unique_order, resolved_devices, rpa_count,
          non_rpa_warned, rssi_history, device_best_gps, running, cb_lock,
          gps_fix, pc, ev, loc, emitted, last_record, warnings, submitted, pushed,
          accepted, scan, query, reader, estimate, parse, startup, mask,
          status, gui>>
\* the calls of module-level helpers that no scanner state takes part in
direct == <<parse, startup, mask, status, gui>>

\* dict.get(key, 0)
GetOr0(d, k) == IF k \in DOMAIN d THEN d[k] ELSE 0

\* an assignment that forgets every other key
PutAlone(d, k, v) == [x \in {k} |-> v]

\* d[key] = value
Put(d, k, v) == [x \in DOMAIN d \cup {k} |-> IF x = k THEN v ELSE d[x]]

EmptyDict == [x \in {} |-> 0]

\* the key order of a dict after d[key] = value: a new key goes last, an
\* existing key keeps its place
DictKeysAfterPut(d, keys, k) == IF k \in DOMAIN d THEN keys ELSE Append(keys, k)

\* BLEScanner.__init__: the fields the engine reads
MakeCfg(mode, irks, target_mac, verbose, min_rssi, rssi_window, name_filter, gps) ==
    [ target_mac  |-> IF IsNone(target_mac) THEN None
                      ELSE Some(Upper(Get(target_mac))),
      targeted    |-> ~IsNone(target_mac),
      irks        |-> irks,
      irk_mode    |-> Len(irks) > 0,
      verbose     |-> verbose,
      min_rssi    |-> min_rssi,
      rssi_window |-> Max(1, rssi_window),
      rssi_window_arg |-> rssi_window,
      name_filter |-> name_filter,
      gps         |-> gps,
      mode        |-> mode ]

\* main(): the three ways of running (--all, a MAC given, IRKs given)
Modes ==
    { [mode |-> "all", irks |-> <<>>, target |-> None, verbose |-> FALSE],
      [mode |-> "targeted", irks |-> <<>>, target |-> Some(AddrLower),
       verbose |-> FALSE],
      [mode |-> "irk", irks |-> <<OtherIrk, SampleIrk>>, target |-> None,
       verbose |-> FALSE],
      [mode |-> "irk", irks |-> <<OtherIrk, SampleIrk>>, target |-> None,
       verbose |-> TRUE] }

\* the filter, smoothing and GPS options tried with every mode
Options ==
    { [min_rssi |-> None, name_filter |-> None, rssi_window |-> 1, gps |-> FALSE],
      [min_rssi |-> None, name_filter |-> None, rssi_window |-> MaxWindow, gps |-> TRUE],
      [min_rssi |-> Some(MinRssi), name_filter |-> None, rssi_window |-> MaxWindow,
       gps |-> FALSE],
      [min_rssi |-> Some(MinRssi), name_filter |-> None, rssi_window |-> 1,
       gps |-> FALSE],
      [min_rssi |-> None, name_filter |-> Some(FilterTa), rssi_window |-> 1,
       gps |-> TRUE] }

Configs ==
    { MakeCfg(m.mode, m.irks, m.target, m.verbose, o.min_rssi, o.rssi_window,
              o.name_filter, o.gps) : m \in Modes, o \in Options }

AddrPool(c) ==
    IF c.irk_mode THEN {AddrRpa, AddrUpper, AddrUuid}
    ELSE {AddrLower, AddrUpper, AddrOther}

NamePool(c) ==
    IF IsNone(c.name_filter) THEN {Some(NameTag)}
    ELSE {None, Some(NameTag)}

NoLocals ==
    [addr |-> <<>>, avg_rssi |-> None, times_seen |-> 0, resolved |-> None,
     label |-> <<>>, record |-> None, failed |-> FALSE, tried |-> <<>>]

NoEvent == [address |-> <<>>, rssi |-> 0, name |-> None]

NoQuery ==
    [irk |-> <<>>, octets |-> None, address |-> <<>>, result |-> FALSE,
     raised |-> FALSE, cipher_calls |-> 0, done |-> FALSE]

\* the scan() task before asyncio.run starts it, with none of its resources
ScanIdle ==
    [ pc          |-> "off",   \* position of the task
      next        |-> 1,       \* `for s in scanners`: the adapter at hand
      started     |-> {},      \* adapters whose BleakScanner.start() returned
      stopped     |-> {},      \* adapters whose BleakScanner.stop() returned
      gps_running |-> FALSE,   \* GpsdReader._running
      log_open    |-> FALSE,   \* self._log_fh is an open file
      gui_up      |-> FALSE,   \* the GuiServer thread serves
      tui_up      |-> FALSE,   \* self._tui_screen is set
      timed_out   |-> FALSE,   \* time.time() - start has reached the timeout
      exc         |-> "none",  \* the exception scan() ended with
      interrupted |-> FALSE,   \* SIGINT has cancelled the task
      teardowns   |-> 0,       \* runs of the finally block of scan()
      summaries   |-> 0,       \* calls of _print_summary
      completes   |-> 0,       \* calls of GuiServer.emit_complete
      stop_calls  |-> 0,       \* calls of stop()
      stop_msgs   |-> 0 ]      \* "Stopping scan..." lines printed

\* ------------------------------------------------------------------------
\* Distance estimator
\* ------------------------------------------------------------------------
\* 10 * n for the exponents n of _ENV_PATH_LOSS, free space for a name the
\* table does not hold
FreeSpaceEverywhere(env) == 20

\* 10 * _ENV_PATH_LOSS.get(env, 2.0)
TenN(env) ==
    IF env = "indoor" THEN 30
    ELSE IF env = "outdoor" THEN 22
    ELSE 20

_DEFAULT_REF_OFFSET == 59

\* a choice of the measured power that looks at tx_power first
TxPowerFirst(tx_power, ref_rssi) ==
    IF ~IsNone(tx_power) THEN Some(Get(tx_power) - _DEFAULT_REF_OFFSET)
    ELSE ref_rssi

\* measured_power: ref_rssi if given, else tx_power - 59, else nothing
MeasuredPower(tx_power, ref_rssi) ==
    IF ~IsNone(ref_rssi) THEN ref_rssi
    ELSE IF ~IsNone(tx_power) THEN Some(Get(tx_power) - _DEFAULT_REF_OFFSET)
    ELSE None

\* 10 ** (num / den) in double precision, by the size of the exponent:
\* above log10 of the largest double (308.2547...) the power raises
\* OverflowError, below log10 of half the smallest subnormal (-323.6072...)
\* it is 0.0, and between them a positive number
PowerOfTen(num, den) ==
    IF num * 10000 > 3082547 * den THEN "OverflowError"
    ELSE IF num * 10000 < (0 - 3236072) * den THEN "zero"
    ELSE "positive"

\* _estimate_distance: the outcome (None, a float or an exception) and, for
\* a float, the exponent num / den of 10 it is the power of
_estimate_distance(rssi, tx_power, env, ref_rssi) ==
    LET measured_power == MeasuredPower(tx_power, ref_rssi)
    IN  IF rssi = 0 \/ IsNone(measured_power)
        THEN [kind |-> "None", num |-> 0, den |-> 1]
        ELSE [kind |-> PowerOfTen(Get(measured_power) - rssi, TenN(env)),
              num |-> Get(measured_power) - rssi,
              den |-> TenN(env)]

NoEstimate ==
    [rssi |-> 0, tx_power |-> None, env |-> "free_space", ref_rssi |-> None,
     result |-> [kind |-> "None", num |-> 0, den |-> 1], done |-> FALSE]

\* GpsdReader.__init__
ReaderIdle ==
    [ pc        |-> "off",    \* position of the thread in _run / _connect_and_read
      running   |-> FALSE,    \* self._running
      connected |-> FALSE,    \* self._connected
      sock_open |-> FALSE,    \* the socket of _connect_and_read is open
      exc       |-> "none",   \* the exception that left _run
      sessions  |-> 0,        \* sockets created so far
      received  |-> 0 ]       \* chunks received so far

NoParse == [irk_string |-> <<>>, result |-> None, done |-> FALSE]

NoMask == [irk_hex |-> <<>>, result |-> <<>>, done |-> FALSE]

\* GuiServer.__init__, with no call of emit_device or of /api/state under way
NoGui ==
    [ devices   |-> EmptyDict,   \* self._devices: address -> data
      device_ts |-> EmptyDict,   \* self._device_ts: address -> time of last update
      ts_order  |-> <<>>,        \* the keys of self._device_ts in insertion order
      lock      |-> 0,           \* self._lock: 0 when free, else its holder
      pc        |-> [t \in Threads |-> "idle"],   \* position in emit_device
      data      |-> [t \in Threads |-> <<>>],     \* argument of emit_device
      emits     |-> 0,           \* calls of emit_device so far
      pushes    |-> 0,           \* device_update events sent
      state_pc  |-> "idle",      \* position of the /api/state handler
      served    |-> EmptyDict,   \* devices_copy of the last /api/state answer
      reads     |-> 0 ]          \* /api/state requests so far

\* the poll loop before its first tick
NoStatus ==
    [ pc               |-> "idle",  \* "idle", or "total_read" inside the dict display
      total_detections |-> 0,       \* the payload emitted last
      unique_count     |-> 0,
      ticks            |-> 0 ]      \* payloads emitted so far

\* main() before it has looked at its arguments
NoStartup ==
    [ pc          |-> "start",  \* "start", "exit" (sys.exit was called), "scanner"
                                \* (BLEScanner(...) returned), "run" (asyncio.run)
      args        |-> <<>>,     \* the parsed command line and the environment
      exit_code   |-> None,     \* the argument of sys.exit
      errors      |-> 0,        \* calls of parser.error
      message     |-> "",       \* what the last parser.error reported
      helps       |-> 0,        \* banner and help printed
      constructed |-> FALSE ]   \* BLEScanner.__init__ has run

InitAggregate ==
    /\ seen_count = 0
    /\ unique_devices = EmptyDict
    /\ unique_order = <<>>
    /\ resolved_devices = EmptyDict
    /\ rpa_count = 0
    /\ non_rpa_warned = {}
    /\ rssi_history = EmptyDict
    /\ device_best_gps = EmptyDict
    /\ running = TRUE
    /\ cb_lock = 0
    /\ gps_fix = None
    /\ pc = [t \in Threads |-> "idle"]
    /\ ev = [t \in Threads |-> NoEvent]
    /\ loc = [t \in Threads |-> NoLocals]
    /\ emitted = 0
    /\ last_record = None
    /\ warnings = 0
    /\ submitted = EmptyDict
    /\ pushed = EmptyDict
    /\ accepted = EmptyDict
    /\ query = NoQuery
    /\ reader = ReaderIdle
    /\ estimate = NoEstimate
    /\ parse = NoParse
    /\ startup = NoStartup
    /\ mask = NoMask
    /\ status = NoStatus
    /\ gui = NoGui

Init ==
    /\ cfg \in Configs
    /\ InitAggregate
    /\ scan = ScanIdle

\* ------------------------------------------------------------------------
\* RSSI smoother
\* ------------------------------------------------------------------------
\* a list that grows without bound
ListAppend(d, x, maxlen) == Append(d, x)

\* deque(maxlen=n).append(x), n >= 1: a full deque drops its oldest element
DequeAppend(d, x, maxlen) ==
    IF Len(d) >= maxlen THEN Append(Tail(d), x) ELSE Append(d, x)

\* _avg_rssi, its effect on self.rssi_history
HistoryAfterPush(history, window, addr, rssi) ==
    LET d == IF addr \in DOMAIN history THEN history[addr] ELSE <<>>
    IN  Put(history, addr, DequeAppend(d, rssi, window))

\* the readings given to _avg_rssi for the address so far, and one more
Logged(log, addr, rssi) ==
    Put(log, addr, Append(IF addr \in DOMAIN log THEN log[addr] ELSE <<>>, rssi))

\* a smoother that hands back the reading it was given
LatestReading(history, window, addr, rssi) == rssi

\* _avg_rssi, its return value
_avg_rssi(history, window, addr, rssi) ==
    LET d == HistoryAfterPush(history, window, addr, rssi)[addr]
    IN  PyRound(Sum(d), Len(d))

\* ------------------------------------------------------------------------
\* Detection callback
\* ------------------------------------------------------------------------
\* positions of a thread inside `with self._cb_lock`
InHandler == {"filter", "branch", "write", "record", "in_sink", "release"}

RECURSIVE SumOver(_, _)
SumOver(d, S) ==
    IF S = {} THEN 0
    ELSE LET k == CHOOSE x \in S : TRUE
         IN  d[k] + SumOver(d, S \ {k})

\* sum(d.values())
Total(d) == SumOver(d, DOMAIN d)

TotalSubmitted == Total(submitted)

\* the platform BLE stack calls detection_callback(device, adv) on thread t
Submit(t, a, r, n) ==
    /\ pc[t] = "idle"
    /\ TotalSubmitted < MaxEvents
    /\ ev' = [ev EXCEPT ![t] = [address |-> a, rssi |-> r, name |-> n]]
    /\ pc' = [pc EXCEPT ![t] = "wait"]
    /\ submitted' = Put(submitted, a, GetOr0(submitted, a) + 1)
    /\ UNCHANGED <<cfg, direct, pushed, reader, estimate, aggregate, running, cb_lock, gps_fix, loc, sinks,
                   accepted, scan, query>>

\* a callback that would run without waiting for the lock
CanAcquireUnlocked(t) == TRUE

\* `with self._cb_lock` can be entered
CanAcquire(t) == cb_lock = 0

\* detection_callback: entering `with self._cb_lock`
Acquire(t) ==
    /\ pc[t] = "wait"
    /\ CanAcquire(t)
    /\ cb_lock' = t
    /\ pc' = [pc EXCEPT ![t] = "filter"]
    /\ UNCHANGED <<cfg, direct, pushed, reader, estimate, aggregate, running, gps_fix, ev, loc, sinks,
                   submitted, accepted, scan, query>>

\* a minimum-RSSI test that lets every reading through
RssiNeverRejects(c, effective_rssi) == FALSE

\* the minimum-RSSI test of _detection_callback_inner
RssiRejects(c, effective_rssi) ==
    ~IsNone(c.min_rssi) /\ effective_rssi < Get(c.min_rssi)

\* the name test of _detection_callback_inner (device.name or "")
NameRejects(c, name) ==
    /\ ~IsNone(c.name_filter)
    /\ ~Contains(Lower(IF IsNone(name) THEN <<>> ELSE Get(name)),
                 Lower(Get(c.name_filter)))

\* _detection_callback_inner up to the mode branch: smoothing and filters
Filter(t) ==
    /\ pc[t] = "filter"
    /\ LET addr == Upper(ev[t].address)
           windowed == cfg.rssi_window > 1
           avg_rssi == IF windowed
                       THEN Some(_avg_rssi(rssi_history, cfg.rssi_window,
                                           addr, ev[t].rssi))
                       ELSE None
           effective_rssi == IF IsNone(avg_rssi) THEN ev[t].rssi
                             ELSE Get(avg_rssi)
       IN  /\ rssi_history' =
                 IF windowed
                 THEN HistoryAfterPush(rssi_history, cfg.rssi_window,
                                       addr, ev[t].rssi)
                 ELSE rssi_history
           /\ pushed' = IF windowed THEN Logged(pushed, addr, ev[t].rssi)
                        ELSE pushed
           /\ loc' = [loc EXCEPT ![t].addr = addr, ![t].avg_rssi = avg_rssi]
           /\ pc' = [pc EXCEPT ![t] =
                        IF RssiRejects(cfg, effective_rssi)
                           \/ NameRejects(cfg, ev[t].name)
                        THEN "release" ELSE "branch"]
    /\ UNCHANGED <<cfg, direct, reader, estimate, seen_count, unique_devices, unique_order, resolved_devices,
                   rpa_count, non_rpa_warned, device_best_gps, running,
                   cb_lock, gps_fix, ev, sinks, submitted, accepted, scan, query>>

\* _irk_detection: is_uuid
IsUuid(addr) ==
    Len(ReplaceChar(addr, "-", <<>>)) = 32 /\ ~Contains(addr, <<":">>)

\* a target test that lets every address through
TargetAlwaysMatches(c, addr) == TRUE

\* `self.target_mac not in addr`, negated
TargetMatches(c, addr) == Contains(addr, Get(c.target_mac))

\* a test that forgets the identifiers already warned about
NeverWarnedBefore(warned, addr) == TRUE

\* `if addr not in self.non_rpa_warned`
NotYetWarned(warned, addr) == addr \notin warned

\* the mode branch: IRK mode counts the detection and sets UUIDs aside,
\* targeted mode tests the target, and the times_seen of the address is read
Branch(t) ==
    /\ pc[t] = "branch"
    /\ LET addr == loc[t].addr
           times_seen == GetOr0(unique_devices, addr) + 1
       IN  IF cfg.irk_mode
           THEN /\ seen_count' = seen_count + 1
                /\ IF IsUuid(addr)
                   THEN /\ non_rpa_warned' = non_rpa_warned \cup {addr}
                        /\ warnings' = IF NotYetWarned(non_rpa_warned, addr)
                                       THEN warnings + 1 ELSE warnings
                        /\ pc' = [pc EXCEPT ![t] = "release"]
                        /\ UNCHANGED <<loc, accepted>>
                   ELSE /\ loc' = [loc EXCEPT ![t].times_seen = times_seen]
                        /\ accepted' = Put(accepted, addr, GetOr0(accepted, addr) + 1)
                        /\ pc' = [pc EXCEPT ![t] = "write"]
                        /\ UNCHANGED <<non_rpa_warned, warnings>>
           ELSE IF cfg.targeted
           THEN IF ~TargetMatches(cfg, addr)
                THEN /\ pc' = [pc EXCEPT ![t] = "release"]
                     /\ UNCHANGED <<seen_count, loc, accepted,
                                    non_rpa_warned, warnings>>
                ELSE /\ seen_count' = seen_count + 1
                     /\ accepted' = Put(accepted, addr, GetOr0(accepted, addr) + 1)
                     /\ loc' = [loc EXCEPT ![t].label =
                                   <<"TARGET FOUND", seen_count + 1>>]
                     /\ pc' = [pc EXCEPT ![t] = "record"]
                     /\ UNCHANGED <<non_rpa_warned, warnings>>
           ELSE /\ loc' = [loc EXCEPT ![t].times_seen = times_seen]
                /\ accepted' = Put(accepted, addr, GetOr0(accepted, addr) + 1)
                /\ pc' = [pc EXCEPT ![t] = "write"]
                /\ UNCHANGED <<seen_count, non_rpa_warned, warnings>>
    /\ UNCHANGED <<cfg, direct, pushed, reader, estimate, unique_devices, unique_order, resolved_devices, rpa_count,
                   rssi_history, device_best_gps, running, cb_lock, gps_fix,
                   ev, emitted, last_record, submitted, scan, query>>

\* _resolve_rpa on the keys and addresses of the pools, computed once
ResolveTable ==
    [k \in {SampleIrk, OtherIrk, WrongIrk},
     a \in {AddrLower, AddrUpper, AddrOther, AddrRpa, Upper(AddrRpa), AddrUuid,
            Upper(AddrUuid), AddrRpaOther, Upper(AddrUuid2)} |->
        _resolve_rpa(k, a)]

\* the call _resolve_rpa(irk, addr) of _irk_detection
Resolve(irk, addr) ==
    IF <<irk, addr>> \in DOMAIN ResolveTable
    THEN ResolveTable[irk, addr]
    ELSE _resolve_rpa(irk, addr)

\* a loop without its `break`: every key is tried, whatever matched before
RECURSIVE IrkLoopNoBreak(_, _, _)
IrkLoopNoBreak(irks, addr, tried) ==
    IF irks = <<>> THEN [resolved |-> FALSE, tried |-> tried]
    ELSE LET rest == IrkLoopNoBreak(Tail(irks), addr, Append(tried, Head(irks)))
         IN  [resolved |-> Resolve(Head(irks), addr) \/ rest.resolved,
              tried |-> rest.tried]

\* _irk_detection: `for irk in self.irks: if _resolve_rpa(irk, addr):
\* resolved = True; break`, from the keys not yet tried; the result is the
\* flag and the keys _resolve_rpa was called with, in order
RECURSIVE IrkLoopFrom(_, _, _)
IrkLoopFrom(irks, addr, tried) ==
    IF irks = <<>> THEN [resolved |-> FALSE, tried |-> tried]
    ELSE IF Resolve(Head(irks), addr)
    THEN [resolved |-> TRUE, tried |-> Append(tried, Head(irks))]
    ELSE IrkLoopFrom(Tail(irks), addr, Append(tried, Head(irks)))

IrkLoop(irks, addr) == IrkLoopFrom(irks, addr, <<>>)

\* the flag `resolved` after the loop
ResolvedByAny(irks, addr) == IrkLoop(irks, addr).resolved

\* a match counter that starts again at every detection
FirstMatchCount(resolved, addr) == 1

\* det_count = self.resolved_devices.get(addr, 0) + 1
NextMatchCount(resolved, addr) == GetOr0(resolved, addr) + 1

\* a no-match branch that reports whatever the verbosity
ReportsAllNoMatch(c) == TRUE

\* `if self.verbose` of the no-match branch
ReportsNoMatch(c) == c.verbose

\* self.unique_devices[addr] = times_seen, then the mode's bookkeeping and
\* the label _print_device is called with
Write(t) ==
    /\ pc[t] = "write"
    /\ LET addr == loc[t].addr
           times_seen == loc[t].times_seen
           unique == Put(unique_devices, addr, times_seen)
       IN  /\ unique_devices' = unique
           /\ unique_order' = DictKeysAfterPut(unique_devices, unique_order, addr)
           /\ IF cfg.irk_mode
              THEN IF ResolvedByAny(cfg.irks, addr)
                   THEN LET det_count == NextMatchCount(resolved_devices, addr)
                        IN  /\ rpa_count' = rpa_count + 1
                            /\ resolved_devices' = Put(resolved_devices, addr, det_count)
                            /\ loc' = [loc EXCEPT
                                         ![t].tried = IrkLoop(cfg.irks, addr).tried,
                                         ![t].resolved = Some(TRUE),
                                         ![t].label = <<"IRK RESOLVED", det_count, times_seen>>]
                            /\ pc' = [pc EXCEPT ![t] = "record"]
                            /\ UNCHANGED seen_count
                   ELSE /\ IF ReportsNoMatch(cfg)
                           THEN /\ loc' = [loc EXCEPT
                                             ![t].tried = IrkLoop(cfg.irks, addr).tried,
                                             ![t].resolved = Some(FALSE),
                                             ![t].label = <<"IRK NO MATCH", times_seen>>]
                                /\ pc' = [pc EXCEPT ![t] = "record"]
                           ELSE /\ loc' = [loc EXCEPT
                                             ![t].tried = IrkLoop(cfg.irks, addr).tried]
                                /\ pc' = [pc EXCEPT ![t] = "release"]
                        /\ UNCHANGED <<seen_count, rpa_count, resolved_devices>>
              ELSE /\ seen_count' = seen_count + 1
                   /\ loc' = [loc EXCEPT ![t].label =
                                 <<"DEVICE", Cardinality(DOMAIN unique), times_seen>>]
                   /\ pc' = [pc EXCEPT ![t] = "record"]
                   /\ UNCHANGED <<rpa_count, resolved_devices>>
    /\ UNCHANGED <<cfg, direct, pushed, reader, estimate, non_rpa_warned, rssi_history, device_best_gps,
                   running, cb_lock, gps_fix, ev, sinks, submitted, accepted,
                   scan, query>>

\* _build_record and the GPS stamp of _record_device
BuildRecord(t, fix) ==
    [ address      |-> ev[t].address,
      name         |-> IF IsNone(ev[t].name) THEN <<"Unknown">> ELSE Get(ev[t].name),
      rssi         |-> ev[t].rssi,
      avg_rssi     |-> loc[t].avg_rssi,
      resolved     |-> loc[t].resolved,
      latitude     |-> IF IsNone(fix) THEN None ELSE Some(Get(fix).lat),
      longitude    |-> IF IsNone(fix) THEN None ELSE Some(Get(fix).lon),
      gps_altitude |-> IF IsNone(fix) THEN None ELSE Get(fix).alt,
      label        |-> loc[t].label ]

\* an accessor that hands out the fix only while the reader is connected
ReadFixWhileConnected(c, fix) == IF c.gps /\ reader.connected THEN fix ELSE None

\* a reader that answers with the origin while it has no fix
ReadFixOrOrigin(c, fix) ==
    IF c.gps
    THEN IF IsNone(fix) THEN Some([lat |-> 0, lon |-> 0, alt |-> None]) ELSE fix
    ELSE None

\* _record_device: `fix = self._gps.fix` when a reader is attached; the
\* property hands out a copy of the latest fix, or None
ReadFix(c, fix) == IF c.gps THEN fix ELSE None

\* a comparison that also replaces the entry on an equal reading
BetterOrEqualFix(best, addr, current_rssi) ==
    addr \notin DOMAIN best \/ current_rssi >= best[addr].rssi

\* _record_device: `best is None or current_rssi > best["rssi"]`
BetterFix(best, addr, current_rssi) ==
    addr \notin DOMAIN best \/ current_rssi > best[addr].rssi

\* _record_device up to the sinks: the record is built and stamped with the
\* latest fix, the best fix of the address is kept, and the sinks are called
Record(t) ==
    /\ pc[t] = "record"
    /\ LET fix == ReadFix(cfg, gps_fix)
           addr == Upper(ev[t].address)
       IN  /\ loc' = [loc EXCEPT ![t].record = Some(BuildRecord(t, fix))]
           /\ device_best_gps' =
                 IF ~IsNone(fix) /\ BetterFix(device_best_gps, addr, ev[t].rssi)
                 THEN Put(device_best_gps, addr,
                          [lat |-> Get(fix).lat, lon |-> Get(fix).lon,
                           rssi |-> ev[t].rssi])
                 ELSE device_best_gps
    /\ pc' = [pc EXCEPT ![t] = "in_sink"]
    /\ UNCHANGED <<cfg, direct, pushed, reader, estimate, seen_count, unique_devices, unique_order, resolved_devices,
                   rpa_count, non_rpa_warned, rssi_history, running, cb_lock,
                   gps_fix, ev, sinks, submitted, accepted, scan, query>>

\* the sinks of _record_device and _print_device (records list, CSV log
\* write and flush, TUI table, GUI push, terminal) return
SinkReturn(t) ==
    /\ pc[t] = "in_sink"
    /\ emitted' = emitted + 1
    /\ last_record' = loc[t].record
    /\ pc' = [pc EXCEPT ![t] = "release"]
    /\ UNCHANGED <<cfg, direct, pushed, reader, estimate, aggregate, running, cb_lock, gps_fix, ev, loc,
                   warnings, submitted, accepted, scan, query>>

\* detection_callback: leaving `with self._cb_lock`
Release(t) ==
    /\ pc[t] = "release"
    /\ cb_lock' = 0
    /\ pc' = [pc EXCEPT ![t] = "idle"]
    /\ ev' = [ev EXCEPT ![t] = NoEvent]
    /\ loc' = [loc EXCEPT ![t] = NoLocals]
    /\ UNCHANGED <<cfg, direct, pushed, reader, estimate, aggregate, running, gps_fix, sinks, submitted,
                   accepted, scan, query>>

\* GpsdReader._connect_and_read stores a TPV fix
GpsFix(f) ==
    /\ cfg.gps
    /\ gps_fix # Some(f)
    /\ gps_fix' = Some(f)
    /\ UNCHANGED <<cfg, direct, pushed, reader, estimate, aggregate, running, cb_lock, pc, ev, loc, sinks,
                   submitted, accepted, scan, query>>

Next ==
    \/ \E t \in Threads, a \in AddrPool(cfg), r \in Rssis, n \in NamePool(cfg) :
          Submit(t, a, r, n)
    \/ \E t \in Threads : Acquire(t)
    \/ \E t \in Threads : Filter(t)
    \/ \E t \in Threads : Branch(t)
    \/ \E t \in Threads : Write(t)
    \/ \E t \in Threads : Record(t)
    \/ \E t \in Threads : SinkReturn(t)
    \/ \E t \in Threads : Release(t)
    \/ \E f \in Fixes : GpsFix(f)

Spec == Init /\ [][Next]_vars

\* ------------------------------------------------------------------------
\* The detection callback when building or delivering a record raises
\* ------------------------------------------------------------------------
\* the unfiltered configurations, without and with GPS and smoothing
FailConfigs == {c \in Configs : IsNone(c.min_rssi) /\ IsNone(c.name_filter)}

InitFail ==
    /\ cfg \in FailConfigs
    /\ InitAggregate
    /\ scan = ScanIdle

\* an exception that would leave the handler without going through the
\* release of the lock
LeaksOnException(t) == "idle"

\* `with self._cb_lock`: an exception raised inside the block leaves it
\* through the release of the lock
ExitOnException(t) == "release"

\* _build_record raises (_estimate_distance, the manufacturer data): no
\* record is built, and nothing after it in _record_device runs
RecordRaises(t) ==
    /\ pc[t] = "record"
    /\ loc' = [loc EXCEPT ![t].failed = TRUE]
    /\ pc' = [pc EXCEPT ![t] = ExitOnException(t)]
    /\ UNCHANGED <<cfg, direct, pushed, reader, estimate, aggregate, running, cb_lock, gps_fix, ev, sinks,
                   submitted, accepted, scan, query>>

\* a sink raises (the CSV writerow or flush, the GUI push, the terminal
\* print): the record is not delivered
SinkRaises(t) ==
    /\ pc[t] = "in_sink"
    /\ loc' = [loc EXCEPT ![t].failed = TRUE]
    /\ pc' = [pc EXCEPT ![t] = ExitOnException(t)]
    /\ UNCHANGED <<cfg, direct, pushed, reader, estimate, aggregate, running, cb_lock, gps_fix, ev, sinks,
                   submitted, accepted, scan, query>>

NextFail ==
    \/ Next
    \/ \E t \in Threads : RecordRaises(t)
    \/ \E t \in Threads : SinkRaises(t)

SpecFail == InitFail /\ [][NextFail]_vars

\* ------------------------------------------------------------------------
\* IRK mode with several key lists
\* ------------------------------------------------------------------------
\* the key lists of --irk-file: the same two keys in both orders, and a
\* list whose first key matches nothing
IrkLists ==
    { <<OtherIrk, SampleIrk>>, <<SampleIrk, OtherIrk>>, <<WrongIrk, SampleIrk>> }

\* quiet and verbose runs, without and with smoothing and GPS
IrkOptions ==
    { [verbose |-> FALSE, rssi_window |-> 1, gps |-> FALSE],
      [verbose |-> TRUE, rssi_window |-> 1, gps |-> FALSE],
      [verbose |-> TRUE, rssi_window |-> MaxWindow, gps |-> TRUE] }

IrkConfigs ==
    { MakeCfg("irk", l, None, o.verbose, None, o.rssi_window, None, o.gps) :
        l \in IrkLists, o \in IrkOptions }

\* addresses of the first and of the second key, and a second identifier
IrkAddrPool == {AddrRpaOther, AddrUuid2}

InitIrk ==
    /\ cfg \in IrkConfigs
    /\ InitAggregate
    /\ scan = ScanIdle

NextIrk ==
    \/ Next
    \/ \E t \in Threads, a \in IrkAddrPool, r \in Rssis :
          Submit(t, a, r, Some(NameTag))

SpecIrk == InitIrk /\ [][NextIrk]_vars

\* ------------------------------------------------------------------------
\* Discover-all mode with devices that come back
\* ------------------------------------------------------------------------
\* --all without filters, without and with smoothing and GPS
AllConfigs ==
    {c \in Configs : c.mode = "all" /\ IsNone(c.min_rssi) /\ IsNone(c.name_filter)}

InitAll ==
    /\ cfg \in AllConfigs
    /\ InitAggregate
    /\ scan = ScanIdle

\* the platform BLE stack reports a device it has reported before
Revisit(t, a, r) ==
    /\ pc[t] = "idle"
    /\ TotalSubmitted < MaxVisits
    /\ a \in DOMAIN submitted
    /\ ev' = [ev EXCEPT ![t] = [address |-> a, rssi |-> r, name |-> Some(NameTag)]]
    /\ pc' = [pc EXCEPT ![t] = "wait"]
    /\ submitted' = Put(submitted, a, submitted[a] + 1)
    /\ UNCHANGED <<cfg, direct, pushed, reader, estimate, aggregate, running, cb_lock, gps_fix, loc, sinks,
                   accepted, scan, query>>

NextAll ==
    \/ Next
    \/ \E t \in Threads, a \in AddrPool(cfg), r \in Rssis : Revisit(t, a, r)

SpecAll == InitAll /\ [][NextAll]_vars

\* ------------------------------------------------------------------------
\* The GPS reader thread
\* ------------------------------------------------------------------------
GpsConfigs == {c \in Configs : c.gps}

InitGps ==
    /\ cfg \in GpsConfigs
    /\ InitAggregate
    /\ scan = ScanIdle

\* what one line of the gpsd stream can be: a TPV object with a position, a
\* TPV object without one, an object of another class, a blank line, text
\* that is not JSON, and JSON that is not an object (an array, a number, a
\* string, null)
LineKinds == {"tpv_fix", "tpv_nofix", "other_class", "blank", "not_json", "not_object"}

\* the ways connect() and sendall() end
ConnectOutcomes == {"ok", "refused", "timeout", "reset_on_send"}

\* the ways recv() ends, besides returning a line
RecvOutcomes == {"timeout", "reset", "eof"}

ReaderUnchanged ==
    UNCHANGED <<cfg, direct, pushed, estimate, aggregate, running, cb_lock, pc, ev, loc, sinks,
                submitted, accepted, scan, query>>

\* GpsdReader.start(): the flag is set and the thread enters _run
ReaderStart ==
    /\ reader.pc = "off"
    /\ reader' = [reader EXCEPT !.running = TRUE, !.pc = "loop"]
    /\ UNCHANGED gps_fix
    /\ ReaderUnchanged

\* GpsdReader.stop(): the flag is cleared (the join waits at most 2 s)
ReaderStop ==
    /\ reader.running
    /\ reader' = [reader EXCEPT !.running = FALSE]
    /\ UNCHANGED gps_fix
    /\ ReaderUnchanged

\* _run: `while self._running`
ReaderLoop ==
    /\ reader.pc = "loop"
    /\ reader' = [reader EXCEPT !.pc = IF reader.running THEN "connect" ELSE "done"]
    /\ UNCHANGED gps_fix
    /\ ReaderUnchanged

\* _connect_and_read up to the read loop: the socket is created, connected
\* and the WATCH command sent; an OSError closes the socket in `finally`
\* and is caught in _run
ReaderConnect(outcome) ==
    /\ reader.pc = "connect"
    /\ reader.sessions < MaxSessions
    /\ reader' =
          [reader EXCEPT
             !.sessions = @ + 1,
             !.connected = outcome \in {"ok", "reset_on_send"},
             !.sock_open = outcome = "ok",
             !.pc = IF outcome = "ok" THEN "recv" ELSE "after"]
    /\ UNCHANGED gps_fix
    /\ ReaderUnchanged

\* where an exception raised while a line is handled goes: past the
\* `except` of _run, which names OSError only
Uncaught(r, name) == [r EXCEPT !.pc = "dead", !.exc = name, !.sock_open = FALSE]

\* the read loop has got one line: json.loads, msg.get("class"), the fix
ReaderLine(kind, f) ==
    /\ reader.pc = "recv"
    /\ reader.running
    /\ reader.received < MaxLines
    /\ LET r == [reader EXCEPT !.received = @ + 1]
       IN  /\ reader' = IF kind = "not_object"
                        THEN Uncaught(r, "AttributeError")
                        ELSE r
           /\ gps_fix' = IF kind = "tpv_fix" THEN Some(f) ELSE gps_fix
    /\ ReaderUnchanged

\* recv() ends without a line: a timeout goes round the loop, a reset
\* raises, an empty read leaves the loop; the socket is closed in `finally`
ReaderRecv(outcome) ==
    /\ reader.pc = "recv"
    /\ reader.running
    /\ reader.received < MaxLines
    /\ reader' = IF outcome = "timeout"
                 THEN [reader EXCEPT !.received = @ + 1]
                 ELSE [reader EXCEPT !.received = @ + 1, !.sock_open = FALSE,
                                     !.pc = "after"]
    /\ UNCHANGED gps_fix
    /\ ReaderUnchanged

\* the read loop finds self._running cleared and ends
ReaderLeave ==
    /\ reader.pc = "recv"
    /\ ~reader.running
    /\ reader' = [reader EXCEPT !.sock_open = FALSE, !.pc = "after"]
    /\ UNCHANGED gps_fix
    /\ ReaderUnchanged

\* _run after the try: connected is cleared, and the thread sleeps for the
\* reconnect delay if it is still to run
ReaderAfter ==
    /\ reader.pc = "after"
    /\ reader' = [reader EXCEPT !.connected = FALSE,
                                !.pc = IF reader.running THEN "sleep" ELSE "loop"]
    /\ UNCHANGED gps_fix
    /\ ReaderUnchanged

\* time.sleep(_GPS_RECONNECT_DELAY) returns
ReaderWake ==
    /\ reader.pc = "sleep"
    /\ reader' = [reader EXCEPT !.pc = "loop"]
    /\ UNCHANGED gps_fix
    /\ ReaderUnchanged

NextGps ==
    \/ ReaderStart
    \/ ReaderStop
    \/ ReaderLoop
    \/ \E o \in ConnectOutcomes : ReaderConnect(o)
    \/ \E k \in LineKinds, f \in Fixes : ReaderLine(k, f)
    \/ \E o \in RecvOutcomes : ReaderRecv(o)
    \/ ReaderLeave
    \/ ReaderAfter
    \/ ReaderWake

SpecGps == InitGps /\ [][NextGps]_vars

\* ------------------------------------------------------------------------
\* The distance estimator called on its own
\* ------------------------------------------------------------------------
\* adv.rssi or its average: no reading, nearer than the reference distance,
\* at it, and beyond it
EstimateRssis == {0, 0 - 50, 0 - 59, 0 - 70, 0 - 127}

\* adv.tx_power
EstimateTxPowers == {None, Some(0), Some(0 - 10), Some(99)}

\* --ref-rssi takes any integer
EstimateRefRssis == {None, Some(0 - 59), Some(0 - 69), Some(0 - 7000), Some(7000)}

\* --environment, and a name outside its choices
EstimateEnvs == {"free_space", "outdoor", "indoor", "nonexistent"}

InitDistance ==
    /\ cfg \in AllConfigs
    /\ InitAggregate
    /\ scan = ScanIdle

\* _estimate_distance(rssi, tx_power, env, ref_rssi) is called
Estimate(rssi, tx_power, env, ref_rssi) ==
    /\ estimate' = [rssi |-> rssi, tx_power |-> tx_power, env |-> env,
                    ref_rssi |-> ref_rssi,
                    result |-> _estimate_distance(rssi, tx_power, env, ref_rssi),
                    done |-> TRUE]
    /\ UNCHANGED <<cfg, direct, pushed, reader, aggregate, running, cb_lock, gps_fix,
                   pc, ev, loc, sinks, submitted, accepted, scan, query>>

NextDistance ==
    \E rssi \in EstimateRssis, tx_power \in EstimateTxPowers,
       env \in EstimateEnvs, ref_rssi \in EstimateRefRssis :
        Estimate(rssi, tx_power, env, ref_rssi)

SpecDistance == InitDistance /\ [][NextDistance]_vars

\* ------------------------------------------------------------------------
\* The IRK parser called on its own
\* ------------------------------------------------------------------------
\* 32 hex digits: the sample key of the Bluetooth Core Specification
IrkDigits ==
    <<"e","c","0","2","3","4","a","3","5","7","c","8","a","d","0","5",
      "3","4","1","0","1","0","a","6","0","a","3","9","7","d","9","b">>

\* the digits two by two with a separator between the pairs
RECURSIVE PairsJoined(_, _)
PairsJoined(s, sep) ==
    IF Len(s) <= 2 THEN s
    ELSE <<s[1], s[2], sep>> \o PairsJoined(Tail(Tail(s)), sep)

\* what is written between the optional prefix and the trailing whitespace:
\* the accepted forms, keys that are too short, too long, not hex or empty,
\* and 30 digits with two blanks in the middle
IrkBodies ==
    { IrkDigits, Upper(IrkDigits), PairsJoined(IrkDigits, ":"),
      PairsJoined(IrkDigits, "-"), SubSeq(IrkDigits, 1, 30),
      IrkDigits \o <<"0", "0">>, [i \in 1..32 |-> "Z"], <<>>,
      SubSeq(IrkDigits, 1, 16) \o <<" ", " ">> \o SubSeq(IrkDigits, 17, 30) }

IrkPrefixes == { <<>>, <<"0", "x">>, <<"0", "X">> }
IrkMargins == { <<>>, <<" ">>, <<"\t">>, <<"\n">> }

IrkStrings ==
    { l \o p \o b \o r : l \in IrkMargins, p \in IrkPrefixes, b \in IrkBodies,
                         r \in IrkMargins }

InitParse ==
    /\ cfg \in AllConfigs
    /\ InitAggregate
    /\ scan = ScanIdle

\* _parse_irk on each of the strings, computed once
ParseTable == [irk_string \in IrkStrings |-> _parse_irk(irk_string)]

\* _parse_irk(irk_string) is called
ParseIrk(irk_string) ==
    /\ parse' = [irk_string |-> irk_string, result |-> ParseTable[irk_string],
                 done |-> TRUE]
    /\ UNCHANGED <<cfg, pushed, reader, estimate, aggregate, running, cb_lock,
                   gps_fix, pc, ev, loc, sinks, submitted, accepted, scan, query,
                   startup, mask, status, gui>>

NextParse == \E irk_string \in IrkStrings : ParseIrk(irk_string)

SpecParse == InitParse /\ [][NextParse]_vars

\* ------------------------------------------------------------------------
\* main(): validation of the command line, up to asyncio.run(scanner.scan())
\* ------------------------------------------------------------------------
\* _MAC_RE.match(mac): six pairs of hex digits with colons between them; the
\* `$` of the pattern also matches before one trailing newline
MacMatches(mac) ==
    LET t == IF Len(mac) = 18 /\ mac[18] = "\n" THEN SubSeq(mac, 1, 17) ELSE mac
    IN  /\ Len(t) = 17
        /\ \A i \in 1..17 : IF i % 3 = 0 THEN t[i] = ":" ELSE IsHexChar(t[i])

\* bool(x) of an optional string
Truthy(o) == ~IsNone(o) /\ Get(o) # <<>>

\* _parse_irk, through the table where it holds the string
ParsedIrk(irk_string) ==
    IF irk_string \in IrkStrings THEN ParseTable[irk_string]
    ELSE _parse_irk(irk_string)

\* the loop over the lines of the IRK file from line i on: the keys read,
\* and the number of the line parser.error was called for (0: none)
RECURSIVE FileIrks(_, _, _)
FileIrks(lines, i, irks) ==
    IF i > Len(lines) THEN [irks |-> irks, bad_line |-> 0]
    ELSE LET stripped == Strip(lines[i])
         IN  IF stripped = <<>> \/ Head(stripped) = "#"
             THEN FileIrks(lines, i + 1, irks)
             ELSE IF IsNone(ParsedIrk(stripped))
                  THEN [irks |-> irks, bad_line |-> i]
                  ELSE FileIrks(lines, i + 1, Append(irks, Get(ParsedIrk(stripped))))

\* `[a.strip() for a in args.adapters.split(",") if a.strip()]`
StripAll(parts) ==
    SelectSeq([i \in 1..Len(parts) |-> Strip(parts[i])], LAMBDA a : a # <<>>)

\* parser.error(message): the report, then sys.exit(2)
ParserError(message) ==
    [exit_code |-> Some(2), errors |-> 1, message |-> message, helps |-> 0,
     irks |-> <<>>, target |-> None]

\* the block "Parse IRKs": the keys, or the error it ends with
ParseIrks(args) ==
    IF Truthy(args.irk)
    THEN IF IsNone(ParsedIrk(Get(args.irk)))
         THEN ParserError("irk")
         ELSE [ParserError("") EXCEPT !.exit_code = None, !.errors = 0,
                                      !.irks = <<Get(ParsedIrk(Get(args.irk)))>>]
    ELSE IF ~IsNone(args.irk_file)
    THEN IF ~Get(args.irk_file).readable THEN ParserError("Cannot read IRK file")
         ELSE LET read == FileIrks(Get(args.irk_file).lines, 1, <<>>)
              IN  IF read.bad_line # 0 THEN ParserError("IRK file line")
                  ELSE IF read.irks = <<>>
                  THEN ParserError("IRK file contains no valid keys")
                  ELSE [ParserError("") EXCEPT !.exit_code = None, !.errors = 0,
                                               !.irks = read.irks]
    ELSE IF Truthy(args.env_irk)
    THEN IF IsNone(ParsedIrk(Get(args.env_irk)))
         THEN ParserError("BTRPA_IRK environment variable")
         ELSE [ParserError("") EXCEPT !.exit_code = None, !.errors = 0,
                                      !.irks = <<Get(ParsedIrk(Get(args.env_irk)))>>]
    ELSE [ParserError("") EXCEPT !.exit_code = None, !.errors = 0]

\* main() from parser.parse_args() to the arguments of BLEScanner(...)
MainOutcome(args) ==
    LET has_irk == Truthy(args.irk) \/ ~IsNone(args.irk_file) \/ Truthy(args.env_irk)
        irks == ParseIrks(args)
    IN  IF args.output_file /\ ~args.output
        THEN ParserError("--output-file (-o) requires --output")
        ELSE IF Truthy(args.mac) /\ ~MacMatches(Get(args.mac))
        THEN ParserError("Invalid MAC address")
        ELSE IF has_irk /\ args.all THEN ParserError("Cannot use IRK with --all")
        ELSE IF has_irk /\ Truthy(args.mac)
        THEN ParserError("Cannot use IRK with a specific MAC address")
        ELSE IF Truthy(args.mac) /\ args.all
        THEN ParserError("Cannot use --all with a specific MAC address")
        ELSE IF ~Truthy(args.mac) /\ ~args.all /\ ~has_irk
        THEN [ParserError("") EXCEPT !.exit_code = Some(0), !.errors = 0,
                                     !.helps = 1]
        ELSE IF args.rssi_window < 1
        THEN ParserError("--rssi-window must be at least 1")
        ELSE IF args.ui = "tui" /\ ~args.ui_installed
        THEN ParserError("--tui requires the 'curses' module")
        ELSE IF args.ui = "tui" /\ args.quiet
        THEN ParserError("Cannot use --tui with --quiet")
        ELSE IF args.ui = "gui" /\ ~args.ui_installed
        THEN ParserError("--gui requires Flask and flask-socketio")
        ELSE IF args.ui = "gui" /\ args.quiet
        THEN ParserError("Cannot use --gui with --quiet")
        ELSE IF Truthy(args.irk) /\ ~IsNone(args.irk_file)
        THEN ParserError("Cannot use --irk and --irk-file together")
        ELSE IF irks.errors > 0 THEN irks
        ELSE IF Truthy(args.adapters)
                /\ StripAll(Split(Get(args.adapters), ",")) = <<>>
        THEN ParserError("--adapters requires at least one adapter name")
        ELSE [irks EXCEPT !.target = IF ~args.all /\ irks.irks = <<>>
                                     THEN args.mac ELSE None]

\* a MAC, the same with a trailing newline, and a text that is no MAC
MainMacs ==
    { None, Some(AddrLower), Some(Append(AddrLower, "\n")), Some(SubSeq(AddrLower, 1, 14)) }

\* a key, a key that is too short, and 30 digits with two blanks inside
MainIrkTexts ==
    { IrkDigits, SubSeq(IrkDigits, 1, 30),
      SubSeq(IrkDigits, 1, 16) \o <<" ", " ">> \o SubSeq(IrkDigits, 17, 30) }

\* IRK files: unreadable, empty, a comment and a blank line around a key, a
\* malformed second line, and a second line with blanks inside
MainIrkFiles ==
    { None,
      Some([readable |-> FALSE, lines |-> <<>>]),
      Some([readable |-> TRUE, lines |-> <<>>]),
      Some([readable |-> TRUE,
            lines |-> << <<"#", "k", "\n">>, <<"\n">>, Append(IrkDigits, "\n") >>]),
      Some([readable |-> TRUE,
            lines |-> << Append(IrkDigits, "\n"), SubSeq(IrkDigits, 1, 30) >>]),
      Some([readable |-> TRUE,
            lines |-> << Append(IrkDigits, "\n"),
                         SubSeq(IrkDigits, 1, 16) \o <<" ", " ">>
                             \o SubSeq(IrkDigits, 17, 30) >>]) }

\* --rssi-window takes any integer
MainWindows == {0, 1, MaxWindow}

\* --adapters
MainAdapters == { Some(<<"h", "c", "i", "0">>), Some(<<",", " ">>) }

\* sys.argv and os.environ as parse_args() and os.environ.get() give them
MainArgs ==
    { [mac |-> m, all |-> a, irk |-> k, irk_file |-> f, env_irk |-> e,
       rssi_window |-> w, output |-> o.output, output_file |-> o.output_file,
       ui |-> u.ui, ui_installed |-> u.installed, quiet |-> u.quiet,
       adapters |-> ad, no_gps |-> g] :
        m \in MainMacs, a \in BOOLEAN,
        k \in {None, Some(<<>>)} \cup {Some(t) : t \in MainIrkTexts},
        f \in MainIrkFiles,
        e \in {None, Some(IrkDigits), Some(SubSeq(IrkDigits, 1, 30))},
        w \in MainWindows,
        o \in { [output |-> FALSE, output_file |-> FALSE],
                [output |-> FALSE, output_file |-> TRUE] },
        u \in { [ui |-> "none", installed |-> FALSE, quiet |-> FALSE],
                [ui |-> "tui", installed |-> TRUE, quiet |-> TRUE],
                [ui |-> "gui", installed |-> FALSE, quiet |-> FALSE],
                [ui |-> "gui", installed |-> TRUE, quiet |-> FALSE] },
        ad \in MainAdapters, g \in BOOLEAN }

\* no BLEScanner exists before main() constructs one
InitMain ==
    /\ cfg = None
    /\ InitAggregate
    /\ scan = ScanIdle

\* main() from its first line to sys.exit(...) or to the return of
\* BLEScanner(...)
Main(args) ==
    /\ startup.pc = "start"
    /\ LET out == MainOutcome(args)
       IN  /\ startup' = [ pc          |-> IF IsNone(out.exit_code) THEN "scanner"
                                           ELSE "exit",
                           args        |-> args,
                           exit_code   |-> out.exit_code,
                           errors      |-> out.errors,
                           message     |-> out.message,
                           helps       |-> out.helps,
                           constructed |-> IsNone(out.exit_code) ]
           /\ cfg' = IF IsNone(out.exit_code)
                     THEN MakeCfg(IF out.irks # <<>> THEN "irk"
                                  ELSE IF IsNone(out.target) THEN "all"
                                  ELSE "targeted",
                                  out.irks, out.target, FALSE, None,
                                  args.rssi_window, None, ~args.no_gps)
                     ELSE cfg
    /\ UNCHANGED <<parse, mask, status, gui, pushed, reader, estimate, aggregate, running,
                   cb_lock, gps_fix, pc, ev, loc, sinks, submitted, accepted, scan,
                   query>>

\* asyncio.run(scanner.scan()): scan() runs to its first await
MainRun ==
    /\ startup.pc = "scanner"
    /\ startup' = [startup EXCEPT !.pc = "run"]
    /\ scan' = [scan EXCEPT !.gps_running = cfg.gps,
                            !.pc = IF cfg.gps THEN "gps_sleep" ELSE "setup"]
    /\ UNCHANGED <<cfg, parse, mask, status, gui, pushed, reader, estimate, aggregate, running,
                   cb_lock, gps_fix, pc, ev, loc, sinks, submitted, accepted, query>>

NextMain ==
    \/ startup.pc = "start" /\ \E args \in MainArgs : Main(args)
    \/ MainRun

SpecMain == InitMain /\ [][NextMain]_vars

\* ------------------------------------------------------------------------
\* The IRK mask called on its own
\* ------------------------------------------------------------------------
\* a mask that hides nothing
MaskNothing(irk_hex) == irk_hex

\* _mask_irk(irk_hex)
_mask_irk(irk_hex) ==
    IF Len(irk_hex) <= 8 THEN irk_hex
    ELSE SubSeq(irk_hex, 1, 4) \o <<".", ".", ".">>
             \o SubSeq(irk_hex, Len(irk_hex) - 3, Len(irk_hex))

\* irk.hex() of three keys: the sample key, a key of one repeated digit, and
\* the key of the tests
MaskKeys ==
    { IrkDigits, [i \in 1..32 |-> "a"],
      <<"0","1","2","3","4","5","6","7","8","9","a","b","c","d","e","f",
        "0","1","2","3","4","5","6","7","8","9","a","b","c","d","e","f">> }

\* the keys and every shorter beginning of them
MaskTexts == { SubSeq(k, 1, n) : k \in MaskKeys, n \in 0..32 }

InitMask ==
    /\ cfg \in AllConfigs
    /\ InitAggregate
    /\ scan = ScanIdle

\* _mask_irk(irk_hex) is called
MaskIrk(irk_hex) ==
    /\ mask' = [irk_hex |-> irk_hex, result |-> _mask_irk(irk_hex), done |-> TRUE]
    /\ UNCHANGED <<cfg, parse, startup, status, gui, pushed, reader, estimate, aggregate,
                   running, cb_lock, gps_fix, pc, ev, loc, sinks, submitted,
                   accepted, scan, query>>

NextMask == \E irk_hex \in MaskTexts : MaskIrk(irk_hex)

SpecMask == InitMask /\ [][NextMask]_vars

\* ------------------------------------------------------------------------
\* Smoothing together with both filters
\* ------------------------------------------------------------------------
\* every mode with --rssi-window above 1, --min-rssi and --name-filter
FilterConfigs ==
    { MakeCfg(m.mode, m.irks, m.target, m.verbose, Some(MinRssi), MaxWindow,
              Some(FilterTa), TRUE) : m \in Modes }

InitFilter ==
    /\ cfg \in FilterConfigs
    /\ InitAggregate
    /\ scan = ScanIdle

SpecFilter == InitFilter /\ [][Next]_vars

\* ------------------------------------------------------------------------
\* The status the poll loop emits while detections arrive
\* ------------------------------------------------------------------------
\* every mode, scanning with --gui and a GPS
PollConfigs ==
    { MakeCfg(m.mode, m.irks, m.target, m.verbose, None, 1, None, TRUE) :
        m \in Modes }

InitPoll ==
    /\ cfg \in PollConfigs
    /\ InitAggregate
    /\ scan = ScanIdle

\* emit_status({... 'total_detections': self.seen_count, ...): the first
\* value of the dict display is read
PollReadTotal ==
    /\ status.pc = "idle"
    /\ status.ticks < MaxTicks
    /\ status' = [status EXCEPT !.pc = "total_read",
                                !.total_detections = seen_count]
    /\ UNCHANGED <<cfg, parse, startup, mask, gui, pushed, reader, estimate, aggregate,
                   running, cb_lock, gps_fix, pc, ev, loc, sinks, submitted,
                   accepted, scan, query>>

\* 'unique_count': len(self.unique_devices) is read and the payload emitted
PollEmitStatus ==
    /\ status.pc = "total_read"
    /\ status' = [status EXCEPT !.pc = "idle",
                                !.unique_count = Cardinality(DOMAIN unique_devices),
                                !.ticks = @ + 1]
    /\ UNCHANGED <<cfg, parse, startup, mask, gui, pushed, reader, estimate, aggregate,
                   running, cb_lock, gps_fix, pc, ev, loc, sinks, submitted,
                   accepted, scan, query>>

NextPoll ==
    \/ Next
    \/ PollReadTotal
    \/ PollEmitStatus

SpecPoll == InitPoll /\ [][NextPoll]_vars

\* ------------------------------------------------------------------------
\* Detections stamped while the GPS reader connects, reads and reconnects
\* ------------------------------------------------------------------------
\* a discover-all scan with a GPS reader
StampConfig == MakeCfg("all", <<>>, None, FALSE, None, 1, None, TRUE)

\* positions gpsd reports: the origin, and one with an altitude
StampFixes == { [lat |-> 0, lon |-> 0, alt |-> None],
                [lat |-> 2, lon |-> 1, alt |-> Some(5)] }

InitStamp ==
    /\ cfg = StampConfig
    /\ InitAggregate
    /\ scan = ScanIdle

NextStamp ==
    \/ \E r \in Rssis : Submit(1, AddrLower, r, None)
    \/ \E t \in Threads : Acquire(t)
    \/ \E t \in Threads : Filter(t)
    \/ \E t \in Threads : Branch(t)
    \/ \E t \in Threads : Write(t)
    \/ \E t \in Threads : Record(t)
    \/ \E t \in Threads : SinkReturn(t)
    \/ \E t \in Threads : Release(t)
    \/ ReaderStart
    \/ ReaderStop
    \/ ReaderLoop
    \/ \E o \in ConnectOutcomes : ReaderConnect(o)
    \/ \E k \in LineKinds, f \in StampFixes : ReaderLine(k, f)
    \/ \E o \in RecvOutcomes : ReaderRecv(o)
    \/ ReaderLeave
    \/ ReaderAfter
    \/ ReaderWake

SpecStamp == InitStamp /\ [][NextStamp]_vars

\* ------------------------------------------------------------------------
\* The device cache of the GUI server
\* ------------------------------------------------------------------------
\* del d[k]
Del(d, k) == [x \in DOMAIN d \ {k} |-> d[x]]

\* sorted(self._device_ts, key=self._device_ts.get): by timestamp, keys with
\* equal timestamps in the order the dictionary holds them
RECURSIVE SortedAddrs(_, _)
SortedAddrs(order, ts) ==
    IF order = <<>> THEN <<>>
    ELSE LET i == CHOOSE i \in 1..Len(order) :
                      /\ \A j \in 1..Len(order) : ts[order[i]] <= ts[order[j]]
                      /\ \A j \in 1..(i - 1) : ts[order[j]] > ts[order[i]]
         IN  <<order[i]>>
                 \o SortedAddrs(SubSeq(order, 1, i - 1)
                                    \o SubSeq(order, i + 1, Len(order)), ts)

\* the deletions of _evict_old_devices, oldest first
RECURSIVE Evicted(_, _)
Evicted(g, addrs) ==
    IF addrs = <<>> THEN g
    ELSE Evicted([g EXCEPT
                    !.devices = Del(g.devices, Head(addrs)),
                    !.device_ts = Del(g.device_ts, Head(addrs)),
                    !.ts_order = SelectSeq(g.ts_order, LAMBDA a : a # Head(addrs))],
                 Tail(addrs))

\* GuiServer._evict_old_devices
_evict_old_devices(g) ==
    IF Cardinality(DOMAIN g.devices) <= _GUI_MAX_DEVICES THEN g
    ELSE LET sorted_addrs == SortedAddrs(g.ts_order, g.device_ts)
             to_remove == Cardinality(DOMAIN g.devices) - _GUI_MAX_DEVICES
         IN  Evicted(g, SubSeq(sorted_addrs, 1, to_remove))

\* the addresses and payloads emit_device is called with
GuiData ==
    { [address |-> a, rssi |-> r] : a \in {AddrUpper, AddrOther, AddrRpa},
                                    r \in Rssis }

\* time.time(): the wall clock, which can be set back between two calls
GuiClock == 1..MaxClock

\* the /api/state handler of the server thread, as a holder of the lock
StateHandler == 3

InitGui ==
    /\ cfg = StampConfig
    /\ InitAggregate
    /\ scan = ScanIdle

GuiUnchanged ==
    UNCHANGED <<cfg, parse, startup, mask, status, pushed, reader, estimate,
                aggregate, running, cb_lock, gps_fix, pc, ev, loc, sinks,
                submitted, accepted, scan, query>>

\* emit_device(data) is called on thread t
EmitDeviceCall(t, data) ==
    /\ gui.pc[t] = "idle"
    /\ gui.emits < MaxEmits
    /\ gui' = [gui EXCEPT !.pc[t] = "wait", !.data[t] = data, !.emits = @ + 1]
    /\ GuiUnchanged

\* `with self._lock` of emit_device is entered
EmitDeviceLock(t) ==
    /\ gui.pc[t] = "wait"
    /\ gui.lock = 0
    /\ gui' = [gui EXCEPT !.pc[t] = "locked", !.lock = t]
    /\ GuiUnchanged

\* the body of the `with` of emit_device: the two stores and the eviction;
\* now is what time.time() returns
EmitDeviceStore(t, now) ==
    /\ gui.pc[t] = "locked"
    /\ LET addr == gui.data[t].address
           stored == [gui EXCEPT
                        !.devices = Put(gui.devices, addr, gui.data[t]),
                        !.ts_order = DictKeysAfterPut(gui.device_ts, gui.ts_order, addr),
                        !.device_ts = Put(gui.device_ts, addr, now)]
       IN  gui' = [_evict_old_devices(stored) EXCEPT !.pc[t] = "emit", !.lock = 0]
    /\ GuiUnchanged

\* self._sio.emit('device_update', data)
EmitDevicePush(t) ==
    /\ gui.pc[t] = "emit"
    /\ gui' = [gui EXCEPT !.pc[t] = "idle", !.pushes = @ + 1]
    /\ GuiUnchanged

\* a client requests /api/state
StateCall ==
    /\ gui.state_pc = "idle"
    /\ gui.reads < MaxReads
    /\ gui' = [gui EXCEPT !.state_pc = "wait", !.reads = @ + 1]
    /\ GuiUnchanged

\* `with self._lock` of state() is entered
StateLock ==
    /\ gui.state_pc = "wait"
    /\ gui.lock = 0
    /\ gui' = [gui EXCEPT !.state_pc = "locked", !.lock = StateHandler]
    /\ GuiUnchanged

\* the copies of state() are taken and the answer is sent
StateCopy ==
    /\ gui.state_pc = "locked"
    /\ gui' = [gui EXCEPT !.state_pc = "idle", !.lock = 0, !.served = gui.devices]
    /\ GuiUnchanged

NextGui ==
    \/ \E t \in Threads, data \in GuiData : EmitDeviceCall(t, data)
    \/ \E t \in Threads : EmitDeviceLock(t)
    \/ \E t \in Threads, now \in GuiClock : EmitDeviceStore(t, now)
    \/ \E t \in Threads : EmitDevicePush(t)
    \/ StateCall
    \/ StateLock
    \/ StateCopy

SpecGui == InitGui /\ [][NextGui]_vars

\* ------------------------------------------------------------------------
\* The smoother called on its own, as the unit tests call it
\* ------------------------------------------------------------------------
RssiMid == 0 - 65

\* BLEScanner(rssi_window=w) for every w from 0 up
SmootherConfigs ==
    { MakeCfg("all", <<>>, None, FALSE, None, w, None, FALSE) : w \in 0..MaxWindow }

InitSmoother ==
    /\ cfg \in SmootherConfigs
    /\ InitAggregate
    /\ scan = ScanIdle

\* scanner._avg_rssi(addr, rssi): the reading is pushed and the average of
\* the window returned to the caller
AvgRssiCall(addr, rssi) ==
    /\ TotalSubmitted < MaxPushes
    /\ submitted' = Put(submitted, addr, GetOr0(submitted, addr) + 1)
    /\ rssi_history' = HistoryAfterPush(rssi_history, cfg.rssi_window, addr, rssi)
    /\ pushed' = Logged(pushed, addr, rssi)
    /\ loc' = [loc EXCEPT ![1].addr = addr,
                          ![1].avg_rssi =
                              Some(_avg_rssi(rssi_history, cfg.rssi_window,
                                             addr, rssi))]
    /\ UNCHANGED <<cfg, direct, reader, estimate, seen_count, unique_devices, unique_order, resolved_devices,
                   rpa_count, non_rpa_warned, device_best_gps, running,
                   cb_lock, gps_fix, pc, ev, sinks, accepted, scan, query>>

NextSmoother ==
    \E addr \in {AddrUpper, AddrOther}, rssi \in {RssiWeak, RssiMid, RssiStrong} :
        AvgRssiCall(addr, rssi)

SpecSmoother == InitSmoother /\ [][NextSmoother]_vars

\* the window size in force: a configured size below 1 counts as 1
WindowCap == IF cfg.rssi_window_arg < 1 THEN 1 ELSE cfg.rssi_window_arg

WindowOf(history, addr) ==
    IF addr \in DOMAIN history THEN history[addr] ELSE <<>>

\* C5: after any sequence of pushes the window of every address holds at
\* most the configured number of readings (a configured size below 1 is
\* treated as 1), and a push onto a full window drops exactly its oldest
\* reading: the window becomes the old one without its head, then the new
\* reading.
C5_WindowBounded ==
    [][\A addr \in DOMAIN rssi_history' :
          LET old == WindowOf(rssi_history, addr)
              new == rssi_history'[addr]
          IN  /\ Len(new) <= WindowCap
              /\ loc'[1].addr = addr =>
                    IF Len(old) = WindowCap
                    THEN /\ Len(new) = WindowCap
                         /\ SubSeq(new, 1, Len(new) - 1) = Tail(old)
                    ELSE /\ Len(new) = Len(old) + 1
                         /\ SubSeq(new, 1, Len(old)) = old
              /\ loc'[1].addr # addr => new = old]_vars

\* an address was pushed more readings than its window of several readings
\* holds, the last of them onto the full window
C5_Witness ==
    \E addr \in DOMAIN rssi_history :
        /\ cfg.rssi_window_arg > 1
        /\ submitted[addr] > WindowCap
        /\ Len(rssi_history[addr]) = WindowCap
        /\ loc[1].addr = addr

\* ------------------------------------------------------------------------
\* The scan life cycle: main(), scan(), _scan_loop() and stop()
\* ------------------------------------------------------------------------
\* the two revisions of the program (btrpa-scan.py, btrpa_scan/cli.py), the
\* platform (loop.add_signal_handler exists or not) and the options scan()
\* reads; --gui and --tui exclude each other
ScanConfigs ==
    { [rev |-> rev, loop_signals |-> ls, gps |-> g, log_file |-> lf,
       gui |-> ui = "gui", tui |-> ui = "tui", adapters |-> n, timed |-> tm] :
        rev \in {"script", "cli"}, ls \in BOOLEAN, g \in BOOLEAN,
        lf \in BOOLEAN, ui \in {"none", "gui", "tui"}, n \in 1..MaxAdapters,
        tm \in BOOLEAN }

InitScan ==
    /\ cfg \in ScanConfigs
    /\ InitAggregate
    /\ scan = ScanIdle

detection == <<seen_count, unique_devices, unique_order, resolved_devices, rpa_count,
               non_rpa_warned, rssi_history, device_best_gps, cb_lock, gps_fix,
               pc, ev, loc, emitted, last_record, warnings, submitted, accepted>>

\* the await expressions of scan() and _scan_loop(), where the task can be
\* cancelled
AwaitPoints == {"gps_sleep", "starting", "sleep", "stopping"}

\* scan() has returned or raised
Ended == {"done", "raised", "exited"}

\* scan() from its first line to its first await: the signal handlers, and
\* the GPS reader when there is one
ScanBegin ==
    /\ scan.pc = "off"
    /\ scan' = [scan EXCEPT !.gps_running = cfg.gps,
                            !.pc = IF cfg.gps THEN "gps_sleep" ELSE "setup"]
    /\ UNCHANGED <<cfg, direct, pushed, reader, estimate, running, detection, query>>

\* await asyncio.sleep(_GPS_STARTUP_DELAY) returns
GpsStartupDelay ==
    /\ scan.pc = "gps_sleep"
    /\ scan' = [scan EXCEPT !.pc = "setup"]
    /\ UNCHANGED <<cfg, direct, pushed, reader, estimate, running, detection, query>>

\* scan() from the opening of the log to the first `await s.start()` of
\* _scan_loop(); fail names the step that raises ("none": no step does)
Setup(fail) ==
    /\ scan.pc = "setup"
    /\ fail = "log" => cfg.log_file
    /\ fail = "gui" => cfg.gui
    /\ fail = "tui" => cfg.tui
    /\ scan' = [scan EXCEPT
                  !.log_open = cfg.log_file /\ fail # "log",
                  !.gui_up   = cfg.gui /\ fail \notin {"log", "gui"},
                  !.tui_up   = cfg.tui /\ fail = "none",
                  !.exc      = IF fail = "none" THEN "none" ELSE "error",
                  !.pc       = IF fail = "none" THEN "starting" ELSE "raised"]
    /\ UNCHANGED <<cfg, direct, pushed, reader, estimate, running, detection, query>>

\* the finally block of scan()
Finally(s) ==
    [s EXCEPT !.tui_up = FALSE, !.gps_running = FALSE, !.log_open = FALSE,
              !.teardowns = @ + 1]

\* `for s in scanners: await s.start()`: the start of the adapter at hand
\* returns, or raises and the exception leaves _scan_loop() and scan()
StartAdapter(ok) ==
    /\ scan.pc = "starting"
    /\ scan' =
          IF ok
          THEN [scan EXCEPT
                  !.started = @ \cup {scan.next},
                  !.next = IF scan.next = cfg.adapters THEN 1 ELSE @ + 1,
                  !.pc = IF scan.next = cfg.adapters THEN "poll" ELSE "starting"]
          ELSE [Finally(scan) EXCEPT !.exc = "error", !.pc = "raised"]
    /\ UNCHANGED <<cfg, direct, pushed, reader, estimate, running, detection, query>>

\* a `while` that only looks at self.running
PollsWhileRunning == running

\* the test of the `while` of _scan_loop()
Polling == running /\ ~(cfg.timed /\ scan.timed_out)

\* one turn of the poll loop up to its sleep
PollTick ==
    /\ scan.pc = "poll"
    /\ Polling
    /\ scan' = [scan EXCEPT !.pc = "sleep"]
    /\ UNCHANGED <<cfg, direct, pushed, reader, estimate, running, detection, query>>

\* the poll loop ends and the finally block of _scan_loop() is entered
PollExit ==
    /\ scan.pc = "poll"
    /\ ~Polling
    /\ scan' = [scan EXCEPT !.pc = "stopping", !.next = 1]
    /\ UNCHANGED <<cfg, direct, pushed, reader, estimate, running, detection, query>>

\* await asyncio.sleep(interval) returns
SleepReturns ==
    /\ scan.pc = "sleep"
    /\ scan' = [scan EXCEPT !.pc = "poll"]
    /\ UNCHANGED <<cfg, direct, pushed, reader, estimate, running, detection, query>>

\* the time of a timed scan runs out
Timeout ==
    /\ cfg.timed
    /\ scan.pc \in {"poll", "sleep"}
    /\ ~scan.timed_out
    /\ scan' = [scan EXCEPT !.timed_out = TRUE]
    /\ UNCHANGED <<cfg, direct, pushed, reader, estimate, running, detection, query>>

\* `for s in scanners: await s.stop()`: the stop of the adapter at hand returns
StopAdapter ==
    /\ scan.pc = "stopping"
    /\ scan' = [scan EXCEPT
                  !.stopped = @ \cup {scan.next},
                  !.next = IF scan.next = cfg.adapters THEN 1 ELSE @ + 1,
                  !.pc = IF scan.next = cfg.adapters THEN "finish" ELSE "stopping"]
    /\ UNCHANGED <<cfg, direct, pushed, reader, estimate, running, detection, query>>

\* scan() after _scan_loop() has returned: the finally block, the GUI
\* completion, the GUI shutdown of the packaged revision, and the summary
ScanFinish ==
    /\ scan.pc = "finish"
    /\ LET s == Finally(scan)
           gui_served == cfg.gui /\ s.gui_up
       IN  scan' = [s EXCEPT
                      !.completes = IF gui_served THEN @ + 1 ELSE @,
                      !.gui_up = IF cfg.rev = "cli" THEN FALSE ELSE @,
                      !.summaries = IF cfg.rev = "cli" /\ cfg.gui THEN @ ELSE @ + 1,
                      !.pc = "done"]
    /\ UNCHANGED <<cfg, direct, pushed, reader, estimate, running, detection, query>>

\* a stop() that would announce itself on every call
StopAlwaysAnnounces(c, r) == TRUE

\* stop(): `not self.tui and not self.gui and self.running`
StopAnnounces(c, r) == ~c.tui /\ ~c.gui /\ r

\* the body of stop()
AfterStop(s) ==
    [s EXCEPT !.stop_calls = @ + 1,
              !.stop_msgs = IF StopAnnounces(cfg, running) THEN @ + 1 ELSE @]

\* SIGINT or SIGTERM where a handler calls stop(): the handler scan()
\* installs on the loop, or the one main() of btrpa-scan.py installs with
\* signal.signal before the scan starts
Stop ==
    /\ scan.stop_calls < MaxStops
    /\ scan.pc \notin Ended
    /\ \/ cfg.loop_signals /\ scan.pc # "off"
       \/ ~cfg.loop_signals /\ cfg.rev = "script"
    /\ scan' = AfterStop(scan)
    /\ running' = FALSE
    /\ UNCHANGED <<cfg, direct, pushed, reader, estimate, detection, query>>

\* SIGINT where no handler calls stop() (btrpa_scan/cli.py without
\* loop.add_signal_handler): asyncio.run cancels the task at its await
Interrupt ==
    /\ cfg.rev = "cli" /\ ~cfg.loop_signals
    /\ ~scan.interrupted
    /\ scan.pc \in AwaitPoints
    /\ scan' =
          IF scan.pc = "sleep"
          THEN [scan EXCEPT !.interrupted = TRUE, !.pc = "stopping", !.next = 1]
          ELSE IF scan.pc = "gps_sleep"
          THEN [scan EXCEPT !.interrupted = TRUE, !.exc = "cancelled",
                            !.pc = "raised"]
          ELSE [Finally(scan) EXCEPT !.interrupted = TRUE, !.exc = "cancelled",
                                     !.pc = "raised"]
    /\ UNCHANGED <<cfg, direct, pushed, reader, estimate, running, detection, query>>

\* main() of btrpa_scan/cli.py: `except KeyboardInterrupt: scanner.stop()`
MainKeyboardInterrupt ==
    /\ cfg.rev = "cli"
    /\ scan.pc = "raised" /\ scan.exc = "cancelled"
    /\ scan' = [AfterStop(scan) EXCEPT !.pc = "exited"]
    /\ running' = FALSE
    /\ UNCHANGED <<cfg, direct, pushed, reader, estimate, detection, query>>

NextScan ==
    \/ ScanBegin
    \/ GpsStartupDelay
    \/ \E fail \in {"none", "log", "gui", "tui"} : Setup(fail)
    \/ \E ok \in BOOLEAN : StartAdapter(ok)
    \/ PollTick
    \/ PollExit
    \/ SleepReturns
    \/ Timeout
    \/ StopAdapter
    \/ ScanFinish
    \/ Stop
    \/ Interrupt
    \/ MainKeyboardInterrupt

SpecScan == InitScan /\ [][NextScan]_vars

\* the event loop resumes the task: a due sleep returns, the loop test is
\* made, an awaited BleakScanner.stop() returns, and scan() runs on to its end
ScanProgress == PollTick \/ PollExit \/ SleepReturns \/ StopAdapter \/ ScanFinish

SpecScanFair == SpecScan /\ WF_vars(ScanProgress)

\* ------------------------------------------------------------------------
\* The resolver called on its own, as the unit tests call it
\* ------------------------------------------------------------------------
HexUpper ==
    <<"0", "1", "2", "3", "4", "5", "6", "7", "8", "9",
      "A", "B", "C", "D", "E", "F">>

\* f"{b:02X}"
FormatOctet(b) == <<HexUpper[(b \div 16) + 1], HexUpper[(b % 16) + 1]>>

\* sep.join(f"{b:02X}" for b in addr_bytes)
RECURSIVE FormatAddr(_, _)
FormatAddr(addr_bytes, sep) ==
    IF Len(addr_bytes) = 0 THEN <<>>
    ELSE IF Len(addr_bytes) = 1 THEN FormatOctet(addr_bytes[1])
    ELSE FormatOctet(addr_bytes[1]) \o <<sep>> \o FormatAddr(Tail(addr_bytes), sep)

ResolverIrks == {SampleIrk, OtherIrk, WrongIrk}

\* prands whose top two bits are 01
Prands == {<<85, 170, 51>>, <<112, 129, 148>>, <<64, 17, 34>>, <<127, 255, 255>>}

\* first bytes whose top two bits are 00, 10 and 11
NonRpaPrands == {<<0, 17, 34>>, <<63, 17, 34>>, <<128, 17, 34>>,
                 <<191, 17, 34>>, <<192, 17, 34>>, <<255, 255, 255>>}

\* _bt_ah on the keys and prands of the pools, computed once
AhTable ==
    [k \in ResolverIrks, p \in Prands \cup NonRpaPrands |-> _bt_ah(k, p)]

\* TestBtAh._make_rpa: prand || ah(irk, prand)
MakeRpaBytes(irk, prand) == prand \o AhTable[irk, prand]

\* strings that are not six octets of hex digits
OddTexts ==
    { <<>>,
      <<"n","o","t","-","a","-","m","a","c">>,
      <<"Z","Z",":","Z","Z",":","Z","Z",":","Z","Z",":","Z","Z",":","Z","Z">>,
      FormatAddr(<<85, 170, 51, 183, 40>>, ":"),
      FormatAddr(<<85, 170, 51, 183, 40, 2, 0>>, ":"),
      <<"1">> \o FormatAddr(<<85, 170, 51, 183, 40, 2>>, ":"),
      FormatAddr(<<85, 170, 51, 183, 40>>, ":") \o <<":", "0", "G">>,
      <<"+">> \o FormatAddr(<<85, 170, 51, 183, 40, 2>>, ":"),
      <<" ">> \o FormatAddr(<<85, 170, 51, 183, 40, 2>>, ":"),
      <<"0", "x">> \o FormatAddr(<<85, 170, 51, 183, 40, 2>>, ":") }

InitResolver ==
    /\ cfg \in {MakeCfg("irk", <<OtherIrk>>, None, FALSE, None, 1, None, FALSE)}
    /\ InitAggregate
    /\ scan = ScanIdle

\* what _resolve_rpa(irk, address) did, kept with its arguments
Answer(irk, octets, address) ==
    LET run == ResolveRun(irk, address)
    IN  [irk |-> irk, octets |-> octets, address |-> address,
         result |-> run.result, raised |-> run.raised,
         cipher_calls |-> run.cipher_calls, done |-> TRUE]

\* _resolve_rpa(irk, _make_rpa(key, prand)), in either separator and case
ResolveCrafted(irk, key, prand, sep, lower) ==
    /\ ~query.done
    /\ LET octets == MakeRpaBytes(key, prand)
           text == FormatAddr(octets, sep)
       IN  query' = Answer(irk, Some(octets), IF lower THEN Lower(text) ELSE text)
    /\ UNCHANGED <<cfg, direct, pushed, reader, estimate, running, detection, scan>>

\* _resolve_rpa(irk, address) on six octets that do not start an RPA
ResolveOctets(irk, key, prand, sep) ==
    /\ ~query.done
    /\ LET octets == MakeRpaBytes(key, prand)
       IN  query' = Answer(irk, Some(octets), FormatAddr(octets, sep))
    /\ UNCHANGED <<cfg, direct, pushed, reader, estimate, running, detection, scan>>

\* _resolve_rpa(irk, address) on any other string
ResolveText(irk, text) ==
    /\ ~query.done
    /\ query' = Answer(irk, None, text)
    /\ UNCHANGED <<cfg, direct, pushed, reader, estimate, running, detection, scan>>

NextResolver ==
    \/ \E irk \in ResolverIrks, key \in ResolverIrks, prand \in Prands,
          sep \in {":", "-"}, lower \in BOOLEAN :
          ResolveCrafted(irk, key, prand, sep, lower)
    \/ \E irk \in ResolverIrks, key \in ResolverIrks, prand \in NonRpaPrands,
          sep \in {":", "-"} :
          ResolveOctets(irk, key, prand, sep)
    \/ \E irk \in ResolverIrks, text \in OddTexts : ResolveText(irk, text)

SpecResolver == InitResolver /\ [][NextResolver]_vars

\* ------------------------------------------------------------------------
\* Properties of the detection callback
\* ------------------------------------------------------------------------
\* the counters and entries a detection can change, and the sinks
counted == <<seen_count, unique_devices, resolved_devices, rpa_count,
             device_best_gps, emitted, last_record>>

\* C1: callbacks arriving concurrently from several adapters are mutually
\* exclusive: at no time are two executions of the detection handler in
\* progress, each runs from its first step to its release before the next
\* one starts.
C1_MutualExclusion ==
    /\ Cardinality({t \in Threads : pc[t] \in InHandler}) <= 1
    /\ \A t \in Threads : pc[t] \in InHandler => cb_lock = t

\* a callback is inside the handler while the other adapter's callback has
\* arrived and waits
C1_Witness ==
    \E t, u \in Threads :
        pc[t] \in {"branch", "write", "record"} /\ pc[u] = "wait"

NoFilters(c) ==
    c.mode = "all" /\ IsNone(c.min_rssi) /\ IsNone(c.name_filter)

AllProcessed == \A t \in Threads : pc[t] = "idle"

\* the events submitted for the addresses whose upper-case form is k
EventsFor(k) == SumOver(submitted, {a \in DOMAIN submitted : Upper(a) = k})

\* C2: in discover-all mode with no filters, whatever the arrival order and
\* interleaving of the N events of two adapter sessions, once all are
\* processed seen_count is N, the unique addresses are the distinct
\* upper-cased addresses, and every address's times_seen is the number of
\* events submitted for it.
C2_DiscoverAllCounts ==
    (NoFilters(cfg) /\ AllProcessed) =>
        /\ seen_count = TotalSubmitted
        /\ DOMAIN unique_devices = {Upper(a) : a \in DOMAIN submitted}
        /\ Cardinality(DOMAIN unique_devices)
              = Cardinality({Upper(a) : a \in DOMAIN submitted})
        /\ \A k \in DOMAIN unique_devices : unique_devices[k] = EventsFor(k)

\* all events of the run are processed, and two of them carried the same
\* address in different letter case
C2_Witness ==
    /\ NoFilters(cfg) /\ AllProcessed
    /\ TotalSubmitted = MaxEvents
    /\ {AddrLower, AddrUpper} \subseteq DOMAIN submitted
    /\ unique_devices[AddrUpper] >= 2

\* C3: for every accepted detection event, in IRK, targeted and discover-all
\* mode alike, the times_seen of its address goes up by exactly 1 and changes
\* at no other time: whenever no handler is in progress the times_seen of
\* every address is the number of events accepted for it.
C3_TimesSeenCountsAccepted ==
    cb_lock = 0 =>
        /\ DOMAIN unique_devices = DOMAIN accepted
        /\ \A k \in DOMAIN accepted : GetOr0(unique_devices, k) = accepted[k]

\* the reading the filters look at: the windowed average when smoothing is on
EffectiveRssi(t) ==
    IF cfg.rssi_window > 1
    THEN _avg_rssi(rssi_history, cfg.rssi_window, Upper(ev[t].address), ev[t].rssi)
    ELSE ev[t].rssi

BelowMinimum(c, rssi) == ~IsNone(c.min_rssi) /\ rssi < Get(c.min_rssi)

NameMismatch(c, name) ==
    /\ ~IsNone(c.name_filter)
    /\ \/ IsNone(name)
       \/ ~Contains(Lower(Get(name)), Lower(Get(c.name_filter)))

\* C4: an event rejected by the minimum-RSSI filter or by the
\* case-insensitive name filter emits no record and leaves seen_count, every
\* times_seen, the resolved-match counters and every best_gps entry as they
\* were: the handler goes from the filters straight to its release.
C4_RejectedEventLeavesCounters ==
    [][\A t \in Threads :
          /\ ( /\ pc[t] = "filter" /\ pc'[t] # "filter"
               /\ \/ BelowMinimum(cfg, EffectiveRssi(t))
                  \/ NameMismatch(cfg, ev[t].name) )
             => (pc'[t] = "release" /\ UNCHANGED counted)
          /\ (pc[t] = "release" /\ pc'[t] # "release")
             => (pc'[t] = "idle" /\ UNCHANGED counted)]_vars

\* a handler is about to release after its event failed a filter, in a run
\* that has counted an earlier event
C4_Witness ==
    \E t \in Threads :
        /\ pc[t] = "release"
        /\ seen_count > 0
        /\ \/ BelowMinimum(cfg, IF IsNone(loc[t].avg_rssi) THEN ev[t].rssi
                                ELSE Get(loc[t].avg_rssi))
           \/ NameMismatch(cfg, ev[t].name)

\* C6: the best_gps entry of an address is replaced only by a detection of
\* that address handled while a fix is available and whose raw RSSI is
\* strictly greater than the stored one (or when there is no entry yet);
\* entries are never removed and the stored RSSI never decreases.
C6_BestGpsOnlyStronger ==
    [][/\ \A k \in DOMAIN device_best_gps' :
             (k \notin DOMAIN device_best_gps
                 \/ device_best_gps'[k] # device_best_gps[k]) =>
             \E t \in Threads :
                /\ pc[t] = "record" /\ pc'[t] = "in_sink"
                /\ Upper(ev[t].address) = k
                /\ cfg.gps /\ ~IsNone(gps_fix)
                /\ k \in DOMAIN device_best_gps =>
                      ev[t].rssi > device_best_gps[k].rssi
                /\ device_best_gps'[k] =
                      [lat |-> Get(gps_fix).lat, lon |-> Get(gps_fix).lon,
                       rssi |-> ev[t].rssi]
       /\ \A k \in DOMAIN device_best_gps :
             /\ k \in DOMAIN device_best_gps'
             /\ device_best_gps'[k].rssi >= device_best_gps[k].rssi]_vars

\* a detection no stronger than the stored one was recorded at another fix,
\* and the entry kept its position
C6_Witness ==
    \E t \in Threads :
        LET k == Upper(ev[t].address)
        IN  /\ pc[t] = "in_sink"
            /\ k \in DOMAIN device_best_gps
            /\ ev[t].rssi <= device_best_gps[k].rssi
            /\ ~IsNone(Get(loc[t].record).latitude)
            /\ Get(Get(loc[t].record).latitude) # device_best_gps[k].lat

\* C10: while a sink has not yet returned for one detection's record, a
\* detection delivered by another callback can still enter the handler.
C10_SinkDoesNotHoldUpCallbacks ==
    \A t, u \in Threads :
        (pc[t] = "in_sink" /\ pc[u] = "wait") => CanAcquire(u)

\* ------------------------------------------------------------------------
\* Properties of the scan life cycle
\* ------------------------------------------------------------------------
\* the summary went to each of its sinks at most once, and to one at least
SummaryProducedOnce ==
    /\ scan.summaries <= 1
    /\ scan.completes <= 1
    /\ scan.summaries + scan.completes >= 1

\* C7: on every way a scan can end (timeout, a stop() request, an interrupt
\* signal including the KeyboardInterrupt path of main(), GUI mode) the
\* final summary has been produced exactly once when scan() has returned or
\* main() has handled the interrupt.
C7_SummaryOnEveryEnd ==
    scan.pc \in {"done", "exited"} => SummaryProducedOnce

\* C8: on every exit path of scan() (normal completion, stop(), an
\* interrupt, an exception raised while a later resource is set up or a
\* later adapter started) every started radio session has been stopped, the
\* GPS reader has been stopped and the log file is closed.
C8_ResourcesReleased ==
    scan.pc \in Ended =>
        /\ scan.started \subseteq scan.stopped
        /\ ~scan.gps_running
        /\ ~scan.log_open

\* C9: stop() is idempotent. A call of stop() made when an earlier call has
\* already cleared `running` changes nothing but the count of calls; the
\* finally block of scan(), the printed summary and the GUI completion never
\* run twice; and a scan that returns has run its teardown exactly once and
\* produced its summary exactly once.
C9_StopIdempotent ==
    /\ [](/\ scan.teardowns <= 1
          /\ scan.summaries <= 1
          /\ scan.completes <= 1
          /\ scan.pc = "done" => (scan.teardowns = 1 /\ SummaryProducedOnce))
    /\ [][(scan'.stop_calls > scan.stop_calls /\ ~running) =>
             /\ running' = running
             /\ scan' = [scan EXCEPT !.stop_calls = @ + 1, !.pc = scan'.pc]]_vars

\* a scan that was asked to stop twice, the first time while it was
\* running on the terminal, has returned
C9_Witness ==
    /\ scan.pc = "done"
    /\ scan.stop_calls >= 2
    /\ scan.stop_msgs = 1
    /\ scan.teardowns = 1
    /\ scan.summaries = 1

\* ------------------------------------------------------------------------
\* Properties of a failing detection
\* ------------------------------------------------------------------------
\* the state kept for address k
StateOf(k) ==
    <<GetOr0(unique_devices, k), GetOr0(resolved_devices, k),
      WindowOf(rssi_history, k),
      IF k \in DOMAIN device_best_gps THEN Some(device_best_gps[k]) ELSE None>>

KnownAddresses ==
    DOMAIN unique_devices \cup DOMAIN resolved_devices
        \cup DOMAIN rssi_history \cup DOMAIN device_best_gps

\* C11: when the building or the delivery of one detection's record raises,
\* the lock is released (no lock is held once every callback has returned),
\* no step of a handler changes the state of an address other than the one
\* it handles, the step that raises changes no aggregate state, the
\* counters of the failing address are all updated together (times_seen
\* with the accepted events, seen_count and rpa_count with the per-address
\* counters), and the events that follow are counted as in a run without
\* failure.
C11_FailureIsolated ==
    /\ [](/\ AllProcessed => cb_lock = 0
          /\ cb_lock = 0 =>
                /\ ~cfg.targeted =>
                      \A k \in DOMAIN accepted \cup DOMAIN unique_devices :
                         GetOr0(unique_devices, k) = GetOr0(accepted, k)
                /\ cfg.mode = "all" => seen_count = Total(unique_devices)
                /\ cfg.irk_mode => rpa_count = Total(resolved_devices)
          /\ (NoFilters(cfg) /\ AllProcessed) =>
                /\ seen_count = TotalSubmitted
                /\ \A k \in DOMAIN unique_devices :
                      unique_devices[k] = EventsFor(k))
    /\ [][\A t \in Threads :
             /\ (pc[t] \in InHandler /\ pc'[t] # pc[t]) =>
                   \A k \in KnownAddresses \cup KnownAddresses' :
                      k # Upper(ev[t].address) => StateOf(k)' = StateOf(k)
             /\ (~loc[t].failed /\ loc'[t].failed) =>
                   /\ UNCHANGED counted
                   /\ pc'[t] = "release"]_vars

\* both events of a run have returned: the record of the first one was
\* lost to an exception, the second one was counted and delivered
C11_Witness ==
    /\ NoFilters(cfg) /\ AllProcessed /\ cb_lock = 0
    /\ seen_count = 2
    /\ emitted = 1
    /\ Get(last_record).label = <<"DEVICE", 1, 2>>

\* ------------------------------------------------------------------------
\* Properties of the resolver
\* ------------------------------------------------------------------------
\* the address of the query is prand || ah(irk, prand) for the key it is
\* resolved against
CraftedForItsKey ==
    /\ query.done /\ ~IsNone(query.octets)
    /\ Get(query.octets)[1] \div 64 = 1
    /\ SubSeq(Get(query.octets), 4, 6)
          = AhTable[query.irk, SubSeq(Get(query.octets), 1, 3)]

\* C12: for every IRK k and every prand p whose top two bits are 01, the
\* address p || ah(k, p) resolves to true against k, written with colons or
\* with dashes, and ah gives the same three bytes for the same k and p.
C12_CraftedAddressResolves ==
    (query.done /\ ~IsNone(query.octets)
        /\ Get(query.octets)[1] \div 64 = 1) =>
        LET p == SubSeq(Get(query.octets), 1, 3)
            h == SubSeq(Get(query.octets), 4, 6)
            again == _bt_ah(query.irk, p)
        IN  /\ Len(again) = 3
            /\ again = AhTable[query.irk, p]
            /\ (h = again) => (query.result /\ ~query.raised)

\* the sample address of the ah() function, 70-81-94-0D-FB-AA, was resolved
\* against its key
C12_Witness ==
    /\ CraftedForItsKey
    /\ query.irk = SampleIrk
    /\ Get(query.octets) = <<112, 129, 148, 13, 251, 170>>
    /\ Contains(query.address, <<"-">>)
    /\ query.result

\* C13: for every IRK and every address of six octets whose first byte's
\* top two bits are not 01, _resolve_rpa returns false without calling
\* _bt_ah.
C13_NonRpaSkipsCipher ==
    (query.done /\ ~IsNone(query.octets)
        /\ Get(query.octets)[1] \div 64 # 1) =>
        (~query.result /\ ~query.raised /\ query.cipher_calls = 0)

\* an address that carries ah(k, p) of its own first three bytes, the first
\* of them with top bits 10, was resolved against k
C13_Witness ==
    /\ query.done /\ ~IsNone(query.octets)
    /\ Get(query.octets)[1] = 128
    /\ SubSeq(Get(query.octets), 4, 6)
          = AhTable[query.irk, SubSeq(Get(query.octets), 1, 3)]
    /\ ~query.result

HexAlphabet ==
    {"0", "1", "2", "3", "4", "5", "6", "7", "8", "9", "a", "b", "c", "d",
     "e", "f", "A", "B", "C", "D", "E", "F"}

\* the octets of an address string, split at colons and dashes
OctetsOf(text) == Split(ReplaceChar(text, "-", <<":">>), ":")

\* the string is empty, has other than six octets, or has an octet that is
\* empty or holds a character that is not a hex digit
Malformed(text) ==
    \/ text = <<>>
    \/ Len(OctetsOf(text)) # 6
    \/ \E i \in 1..Len(OctetsOf(text)) :
          \/ OctetsOf(text)[i] = <<>>
          \/ \E j \in 1..Len(OctetsOf(text)[i]) :
                OctetsOf(text)[i][j] \notin HexAlphabet

\* C14: for every malformed address string and every IRK, _resolve_rpa
\* returns false and does not raise.
C14_MalformedIsFalse ==
    (query.done /\ Malformed(query.address)) =>
        (~query.result /\ ~query.raised)

\* ------------------------------------------------------------------------
\* IRK mode
\* ------------------------------------------------------------------------
\* the key resolves the address
Matches(k, addr) == ResolveTable[k, addr]

\* some key of the list resolves the address
SomeKeyMatches(irks, addr) == \E i \in 1..Len(irks) : Matches(irks[i], addr)

Keys(irks) == {irks[i] : i \in 1..Len(irks)}

\* the thread has run the loop over the keys for the address at hand
LoopDone(t) == cfg.irk_mode /\ loc[t].tried # <<>>

\* the loop ended with resolved = True
Verdict(t) == loc[t].resolved = Some(TRUE)

\* C15: in IRK mode an address is resolved exactly when at least one active
\* key resolves it; the keys are tried in list order and none after the
\* first matching one, and a list of the same keys in another order gives
\* the same verdict.
C15_VerdictIsAnyKeyInOrder ==
    \A t \in Threads :
        LoopDone(t) =>
            LET addr == loc[t].addr
                tried == loc[t].tried
                n == Len(tried)
            IN  /\ Verdict(t) <=> SomeKeyMatches(cfg.irks, addr)
                /\ n <= Len(cfg.irks)
                /\ \A i \in 1..n : tried[i] = cfg.irks[i]
                /\ \A i \in 1..(n - 1) : ~Matches(tried[i], addr)
                /\ n < Len(cfg.irks) => Matches(tried[n], addr)
                /\ \A l \in IrkLists :
                      Keys(l) = Keys(cfg.irks) =>
                          (Verdict(t) <=> SomeKeyMatches(l, addr))

\* the first of two keys matched and the second was not tried, under a list
\* that another configuration holds in the opposite order
C15_Witness ==
    \E t \in Threads :
        /\ LoopDone(t)
        /\ Verdict(t)
        /\ Len(cfg.irks) = 2
        /\ Len(loc[t].tried) = 1
        /\ Matches(cfg.irks[1], loc[t].addr)
        /\ \E l \in IrkLists : l # cfg.irks /\ Keys(l) = Keys(cfg.irks)

\* position in the list of the first key that resolves the address, 0 if none
FirstMatch(irks, addr) ==
    IF SomeKeyMatches(irks, addr)
    THEN CHOOSE i \in 1..Len(irks) :
            /\ Matches(irks[i], addr)
            /\ \A j \in 1..(i - 1) : ~Matches(irks[j], addr)
    ELSE 0

\* what the resolution adds to a record and to the terminal block: the
\* flag and the label; the other fields describe the advertisement
ResolutionResult(rec) == [resolved |-> rec.resolved, label |-> rec.label]

\* C16: the result of resolving an address against several keys reports
\* which key matched (the first matching one in list order): two resolved
\* detections matched by different keys carry different results.
C16_ResultTellsMatchingKey ==
    \A t \in Threads :
        (/\ cfg.irk_mode
         /\ ~IsNone(last_record)
         /\ ~IsNone(loc[t].record)
         /\ Get(last_record).resolved = Some(TRUE)
         /\ Get(loc[t].record).resolved = Some(TRUE)
         /\ FirstMatch(cfg.irks, Upper(Get(last_record).address))
              # FirstMatch(cfg.irks, Upper(Get(loc[t].record).address)))
        => ResolutionResult(Get(last_record)) # ResolutionResult(Get(loc[t].record))

\* the accepted detections of the address whose bookkeeping has been done
Handled(a) ==
    accepted[a] - Cardinality({t \in Threads : pc[t] = "write" /\ loc[t].addr = a})

\* the addresses accepted so far that a key of the list resolves
ResolvedAddresses == {a \in DOMAIN accepted : SomeKeyMatches(cfg.irks, a)}

\* the number of accepted detections handled so far whose address resolves
ResolvedDetections == Total([a \in ResolvedAddresses |-> Handled(a)])

\* thread t does the bookkeeping of an accepted detection that resolves
ResolvedStep(t) ==
    /\ cfg.irk_mode
    /\ pc[t] = "write"
    /\ pc'[t] # "write"
    /\ SomeKeyMatches(cfg.irks, loc[t].addr)

\* C17: in IRK mode each accepted detection whose address resolves adds
\* exactly 1 to the address's match counter (0 to 1 at the first match) and
\* exactly 1 to the overall resolved count and emits one record with
\* resolved = true; the resolved count the summary prints is the number of
\* such detections.
C17_ResolvedDetectionCounted ==
    /\ [](cfg.irk_mode =>
            /\ rpa_count = ResolvedDetections
            /\ \A a \in ResolvedAddresses :
                  GetOr0(resolved_devices, a) = Handled(a)
            /\ DOMAIN resolved_devices \subseteq ResolvedAddresses)
    /\ [][\A t \in Threads :
            ResolvedStep(t) =>
                /\ GetOr0(resolved_devices', loc[t].addr)
                     = GetOr0(resolved_devices, loc[t].addr) + 1
                /\ \A a \in DOMAIN resolved_devices \ {loc[t].addr} :
                      resolved_devices'[a] = resolved_devices[a]
                /\ rpa_count' = rpa_count + 1
                /\ pc'[t] = "record"
                /\ loc'[t].resolved = Some(TRUE)]_vars
    /\ [][\A t \in Threads :
            (cfg.irk_mode /\ pc[t] = "in_sink" /\ pc'[t] # "in_sink"
             /\ loc[t].resolved = Some(TRUE)) =>
                /\ emitted' = emitted + 1
                /\ ~IsNone(last_record')
                /\ Get(last_record').resolved = Some(TRUE)
                /\ Upper(Get(last_record').address) = loc[t].addr]_vars
    /\ [][emitted' # emitted =>
            \E t \in Threads : pc[t] = "in_sink" /\ emitted' = emitted + 1]_vars

\* the same address has been resolved twice, both records are out
C17_Witness ==
    /\ cfg.irk_mode
    /\ rpa_count = 2
    /\ emitted = 2
    /\ \E a \in DOMAIN resolved_devices : resolved_devices[a] = 2
    /\ ~IsNone(last_record)
    /\ Get(last_record).resolved = Some(TRUE)

\* thread t does the bookkeeping of an accepted detection no key resolves
NoMatchStep(t) ==
    /\ cfg.irk_mode
    /\ pc[t] = "write"
    /\ pc'[t] # "write"
    /\ ~SomeKeyMatches(cfg.irks, loc[t].addr)

\* C18: in IRK mode a detection whose address matches no active key emits a
\* record (with resolved = false) if and only if verbose reporting is on;
\* with verbose off it emits none, and in both cases the resolved-match
\* counters are unchanged.
C18_NoMatchReportedIffVerbose ==
    /\ [][\A t \in Threads :
            NoMatchStep(t) =>
                /\ resolved_devices' = resolved_devices
                /\ rpa_count' = rpa_count
                /\ emitted' = emitted
                /\ IF cfg.verbose
                   THEN pc'[t] = "record" /\ loc'[t].resolved = Some(FALSE)
                   ELSE pc'[t] = "release" /\ IsNone(loc'[t].resolved)]_vars
    /\ [][\A t \in Threads :
            (cfg.irk_mode /\ pc[t] = "in_sink" /\ pc'[t] # "in_sink"
             /\ ~SomeKeyMatches(cfg.irks, loc[t].addr)) =>
                /\ cfg.verbose
                /\ emitted' = emitted + 1
                /\ ~IsNone(last_record')
                /\ Get(last_record').resolved = Some(FALSE)
                /\ Upper(Get(last_record').address) = loc[t].addr
                /\ resolved_devices' = resolved_devices
                /\ rpa_count' = rpa_count]_vars
    /\ [][(cfg.irk_mode /\ emitted' # emitted) =>
            \E t \in Threads :
                /\ pc[t] = "in_sink"
                /\ cfg.verbose \/ SomeKeyMatches(cfg.irks, loc[t].addr)]_vars
    /\ [][(cfg.irk_mode /\ (rpa_count' # rpa_count
                             \/ resolved_devices' # resolved_devices)) =>
            \E t \in Threads : ResolvedStep(t)]_vars

\* a verbose run has reported a detection that no key resolves
C18_Witness ==
    /\ cfg.irk_mode
    /\ cfg.verbose
    /\ emitted >= 1
    /\ ~IsNone(last_record)
    /\ Get(last_record).resolved = Some(FALSE)
    /\ ~SomeKeyMatches(cfg.irks, Upper(Get(last_record).address))
    /\ rpa_count = 0
    /\ resolved_devices = EmptyDict

\* a platform-opaque identifier: 32 hex characters, dashes aside, no colon
OpaqueId(a) ==
    LET kept == SelectSeq(a, LAMBDA c : c # "-")
    IN  /\ Len(kept) = 32
        /\ \A i \in 1..Len(kept) : kept[i] \in HexAlphabet
        /\ \A i \in 1..Len(a) : a[i] # ":"

\* the identifiers detections have been delivered for, as the handler keys them
OpaqueIdsSeen == {Upper(a) : a \in {x \in DOMAIN submitted : OpaqueId(x)}}

\* C19: in IRK mode a platform-opaque identifier (32 hex characters without
\* colons) is never resolved, and its 'cannot resolve' warning is raised at
\* most once per distinct identifier, however many detections arrive for it.
C19_OpaqueIdWarnedOnce ==
    cfg.irk_mode =>
        /\ warnings = Cardinality(non_rpa_warned)
        /\ non_rpa_warned \subseteq OpaqueIdsSeen
        /\ \A a \in OpaqueIdsSeen :
              /\ a \notin DOMAIN resolved_devices
              /\ \A t \in Threads :
                    loc[t].addr = a =>
                        /\ pc[t] \in {"branch", "release"}
                        /\ IsNone(loc[t].resolved)
                        /\ loc[t].tried = <<>>
        /\ ~IsNone(last_record) => ~OpaqueId(Get(last_record).address)

\* two detections of one identifier have been handled and one warning raised
C19_Witness ==
    /\ cfg.irk_mode
    /\ \E a \in DOMAIN submitted : OpaqueId(a) /\ submitted[a] = 2
    /\ \A t \in Threads : pc[t] = "idle"
    /\ warnings = 1

\* C20: in IRK mode a detection of a platform-opaque identifier changes no
\* aggregator state other than the seen-once set: the total detection
\* count, times_seen, the RSSI window, the resolved counters and best_gps
\* are unchanged and no record is emitted.
C20_OpaqueIdLeavesAggregate ==
    [][\A t \in Threads :
          (/\ cfg.irk_mode
           /\ OpaqueId(ev[t].address)
           /\ pc[t] \in InHandler
           /\ pc'[t] # pc[t]) =>
              /\ seen_count' = seen_count
              /\ unique_devices' = unique_devices
              /\ rssi_history' = rssi_history
              /\ resolved_devices' = resolved_devices
              /\ rpa_count' = rpa_count
              /\ device_best_gps' = device_best_gps
              /\ emitted' = emitted]_vars

\* ------------------------------------------------------------------------
\* Targeted and discover-all mode
\* ------------------------------------------------------------------------
\* sub occurs in s as a run of consecutive characters
HasSubstring(s, sub) ==
    \E i \in 1..(Len(s) - Len(sub) + 1) : SubSeq(s, i, i + Len(sub) - 1) = sub

\* thread t, past the filters, decides about the detection in targeted mode
TargetStep(t) == cfg.targeted /\ pc[t] = "branch" /\ pc'[t] # "branch"

\* C21: in targeted mode a detection that passed the filters is accepted
\* exactly when its uppercased address contains the uppercased target; an
\* accepted one emits one 'target found' record and raises the detection
\* count by 1, any other emits nothing and leaves the count unchanged.
C21_TargetedAcceptsOnSubstring ==
    /\ [][\A t \in Threads :
            TargetStep(t) =>
                IF HasSubstring(Upper(ev[t].address), Get(cfg.target_mac))
                THEN /\ seen_count' = seen_count + 1
                     /\ pc'[t] = "record"
                     /\ loc'[t].label = <<"TARGET FOUND", seen_count + 1>>
                ELSE /\ seen_count' = seen_count
                     /\ pc'[t] = "release"
                     /\ emitted' = emitted]_vars
    /\ [][(cfg.targeted /\ emitted' # emitted) =>
            \E t \in Threads :
                /\ pc[t] = "in_sink"
                /\ HasSubstring(Upper(ev[t].address), Get(cfg.target_mac))
                /\ emitted' = emitted + 1
                /\ Get(last_record').label[1] = "TARGET FOUND"
                /\ Get(last_record').address = ev[t].address]_vars
    /\ [][(cfg.targeted /\ seen_count' # seen_count) =>
            \E t \in Threads : TargetStep(t)]_vars
    /\ [](cfg.targeted =>
            \A t \in Threads :
                pc[t] \in {"record", "in_sink"} =>
                    HasSubstring(Upper(ev[t].address), Get(cfg.target_mac)))

\* a lower-case target has matched an address, another address has been
\* turned away, and both are through
C21_Witness ==
    /\ cfg.targeted
    /\ seen_count = 1
    /\ emitted = 1
    /\ TotalSubmitted = 2
    /\ \A t \in Threads : pc[t] = "idle"
    /\ IsNone(cfg.min_rssi) /\ IsNone(cfg.name_filter)
    /\ Get(last_record).label[1] = "TARGET FOUND"

\* position of a key in the insertion order of a dict, 0 if absent
IndexOf(keys, k) ==
    IF \E i \in 1..Len(keys) : keys[i] = k
    THEN CHOOSE i \in 1..Len(keys) : keys[i] = k
    ELSE 0

\* C22: in discover-all mode every emitted device record is labeled with the
\* ordinal index of its address among the distinct addresses seen so far,
\* the position at which the address was first seen, also when an earlier
\* address is detected again after newer ones have appeared.
C22_LabelIsOrdinalOfAddress ==
    (cfg.mode = "all" /\ ~IsNone(last_record)) =>
        /\ Get(last_record).label[1] = "DEVICE"
        /\ Get(last_record).label[2]
             = IndexOf(unique_order, Upper(Get(last_record).address))

\* ------------------------------------------------------------------------
\* RSSI smoothing
\* ------------------------------------------------------------------------
\* the last k elements of a sequence
LastK(seq, k) == SubSeq(seq, Len(seq) - k + 1, Len(seq))

Min(a, b) == IF a < b THEN a ELSE b

Abs(x) == IF x < 0 THEN 0 - x ELSE x

\* m is the mean of the readings rounded to an integer: no integer is
\* nearer to sum / len
IsRoundedMean(m, readings) ==
    2 * Abs(Sum(readings) - m * Len(readings)) <= Len(readings)

\* C23: for window size w, after readings r1..rn have been pushed for an
\* address, the value the last push returned is the rounded mean of the last
\* min(n, w) readings pushed for that address; readings pushed for other
\* addresses do not affect it.
C23_AverageOfLastReadings ==
    ~IsNone(loc[1].avg_rssi) =>
        LET mine == pushed[loc[1].addr]
        IN  IsRoundedMean(Get(loc[1].avg_rssi),
                          LastK(mine, Min(Len(mine), WindowCap)))

\* three readings have gone to an address with a window of two, readings for
\* another address among them, and the mean of the last two differs from
\* the last reading
C23_Witness ==
    /\ ~IsNone(loc[1].avg_rssi)
    /\ WindowCap = 2
    /\ Len(pushed[loc[1].addr]) = 3
    /\ Cardinality(DOMAIN pushed) = 2
    /\ Get(loc[1].avg_rssi) # pushed[loc[1].addr][3]
    /\ pushed[loc[1].addr][1] # pushed[loc[1].addr][2]

\* C24: with window size 1 the pipeline takes the path of the larger
\* windows: the smoother is invoked for every detection, and each emitted
\* record carries a windowed average equal to the raw RSSI of the detection.
C24_WindowOneIsPassthrough ==
    /\ (cfg.rssi_window = 1 /\ ~IsNone(last_record)) =>
            Get(last_record).avg_rssi = Some(Get(last_record).rssi)
    /\ cfg.rssi_window = 1 =>
            \A t \in Threads :
                pc[t] \in {"branch", "write", "record", "in_sink"} =>
                    /\ loc[t].addr \in DOMAIN pushed
                    /\ loc[t].avg_rssi = Some(ev[t].rssi)

\* ------------------------------------------------------------------------
\* GPS
\* ------------------------------------------------------------------------
\* C25: the aggregator only reads the GPS fix and never waits for one: with
\* a GPS source attached that has no fix yet, an accepted detection still
\* emits its record (the handler can always go on), with empty latitude,
\* longitude and altitude, and every best_gps entry is left unchanged.
C25_NoFixIsTolerated ==
    /\ [](\A t \in Threads :
            /\ pc[t] = "record" => ENABLED Record(t)
            /\ pc[t] = "in_sink" => ENABLED SinkReturn(t))
    /\ [][\A t \in Threads :
            (cfg.gps /\ IsNone(gps_fix) /\ pc[t] = "record" /\ pc'[t] # "record") =>
                /\ pc'[t] = "in_sink"
                /\ IsNone(Get(loc'[t].record).latitude)
                /\ IsNone(Get(loc'[t].record).longitude)
                /\ IsNone(Get(loc'[t].record).gps_altitude)
                /\ device_best_gps' = device_best_gps
                /\ gps_fix' = gps_fix]_vars
    /\ [][\A t \in Threads :
            (cfg.gps /\ IsNone(gps_fix) /\ pc[t] = "in_sink" /\ pc'[t] # "in_sink") =>
                /\ emitted' = emitted + 1
                /\ last_record' = loc[t].record
                /\ device_best_gps' = device_best_gps]_vars

\* a reader is attached, it has no fix, and a record has gone out unstamped
C25_Witness ==
    /\ cfg.gps
    /\ IsNone(gps_fix)
    /\ emitted >= 1
    /\ ~IsNone(last_record)
    /\ IsNone(Get(last_record).latitude)
    /\ IsNone(Get(last_record).longitude)
    /\ IsNone(Get(last_record).gps_altitude)
    /\ device_best_gps = EmptyDict

\* C26: while the GPS reader is running, every end of a gpsd session
\* (connection refused, reset, timeout, end of stream, a line that is not a
\* well-formed TPV message object) leaves connected = false and leads to a
\* new connection attempt after the reconnect delay; no such failure ends
\* the reader loop or propagates outside it.
C26_SessionEndIsRecovered ==
    /\ reader.exc = "none"
    /\ reader.pc \in {"done", "dead"} => ~reader.running
    /\ reader.pc \in {"sleep", "loop", "connect", "done", "dead"} => ~reader.connected
    /\ reader.pc \in {"sleep", "loop", "connect", "after", "done", "dead"} =>
          ~reader.sock_open

\* ------------------------------------------------------------------------
\* Per-address state
\* ------------------------------------------------------------------------
\* every key stays, and no count goes down
CountsGrow(old, new) ==
    /\ DOMAIN old \subseteq DOMAIN new
    /\ \A a \in DOMAIN old : new[a] >= old[a]

\* C27: per-address state, once created by the first detection of an
\* address, is never removed: over any sequence of detection events the set
\* of tracked addresses only grows, and times_seen, the resolved-match
\* counters and the total detection count never decrease.
C27_DeviceStateOnlyGrows ==
    [][/\ CountsGrow(unique_devices, unique_devices')
       /\ CountsGrow(resolved_devices, resolved_devices')
       /\ DOMAIN rssi_history \subseteq DOMAIN rssi_history'
       /\ DOMAIN device_best_gps \subseteq DOMAIN device_best_gps'
       /\ SubSeq(unique_order', 1, Len(unique_order)) = unique_order
       /\ seen_count' >= seen_count
       /\ rpa_count' >= rpa_count]_vars

\* two addresses are tracked, the second created after the first
C27_Witness ==
    /\ Cardinality(DOMAIN unique_devices) = 2
    /\ Len(unique_order) = 2
    /\ seen_count = 2
    /\ \A t \in Threads : pc[t] = "idle"

\* ------------------------------------------------------------------------
\* Distance estimation
\* ------------------------------------------------------------------------
\* C28: _estimate_distance returns None, never 0 and never an exception,
\* when rssi = 0 (whatever tx_power and ref_rssi are) and when both ref_rssi
\* and tx_power are absent; in every other case it returns a positive
\* number.
C28_NoneOrPositive ==
    estimate.done =>
        IF estimate.rssi = 0
           \/ (IsNone(estimate.tx_power) /\ IsNone(estimate.ref_rssi))
        THEN estimate.result.kind = "None"
        ELSE estimate.result.kind = "positive"

\* C29: the measured power the estimator uses is ref_rssi whenever ref_rssi
\* is supplied, tx_power present or absent, and tx_power - 59 only when
\* ref_rssi is absent; so the result with ref_rssi = r is the result with no
\* ref_rssi and tx_power = r + 59.
C29_RefRssiHasPriority ==
    (estimate.done /\ estimate.rssi # 0) =>
        /\ ~IsNone(estimate.ref_rssi) =>
              /\ estimate.result.kind # "None"
              /\ estimate.result.num = Get(estimate.ref_rssi) - estimate.rssi
              /\ estimate.result
                   = _estimate_distance(estimate.rssi,
                                        Some(Get(estimate.ref_rssi) + 59),
                                        estimate.env, None)
        /\ (IsNone(estimate.ref_rssi) /\ ~IsNone(estimate.tx_power)) =>
              /\ estimate.result.kind # "None"
              /\ estimate.result.num = Get(estimate.tx_power) - 59 - estimate.rssi

\* a call with a calibration value and a tx_power that would give another
\* measured power
C29_Witness ==
    /\ estimate.done
    /\ estimate.rssi # 0
    /\ ~IsNone(estimate.ref_rssi)
    /\ ~IsNone(estimate.tx_power)
    /\ Get(estimate.tx_power) - 59 # Get(estimate.ref_rssi)
    /\ estimate.result.kind = "positive"

\* the first float is smaller than the second: powers of ten compare as
\* their exponents do
Smaller(a, b) ==
    /\ a.kind = "positive"
    /\ b.kind = "positive"
    /\ a.num * b.den < b.num * a.den

C31_WeakerIsFarther ==
    (/\ estimate.done
     /\ estimate.rssi # 0
     /\ ~(IsNone(estimate.tx_power) /\ IsNone(estimate.ref_rssi))) =>
        \A r2 \in EstimateRssis \ {0} :
            estimate.rssi < r2 =>
                Smaller(_estimate_distance(r2, estimate.tx_power, estimate.env,
                                           estimate.ref_rssi),
                        estimate.result)

\* C32: for every input string _parse_irk either returns exactly 16 bytes or
\* raises ValueError.
C32_SixteenBytesOrValueError ==
    parse.done => (IsNone(parse.result) \/ Len(Get(parse.result)) = 16)

\* the text denotes a key: 32 hex digits, plain, after 0x, or with colons or
\* dashes, with whitespace around it at most
DenotesKey(text) ==
    LET t == Strip(text)
        u == IF Len(t) >= 2 /\ t[1] = "0" /\ t[2] \in {"x", "X"}
             THEN SubSeq(t, 3, Len(t)) ELSE t
        d == SelectSeq(u, LAMBDA c : c \notin {":", "-"})
    IN  Len(d) = 32 /\ \A i \in 1..32 : IsHexChar(d[i])

\* the IRK source main() uses holds a malformed key
MalformedIrkGiven(args) ==
    IF Truthy(args.irk) THEN ~DenotesKey(Get(args.irk))
    ELSE IF ~IsNone(args.irk_file)
    THEN /\ Get(args.irk_file).readable
         /\ \E i \in 1..Len(Get(args.irk_file).lines) :
                LET line == Strip(Get(args.irk_file).lines[i])
                IN  line # <<>> /\ Head(line) # "#" /\ ~DenotesKey(line)
    ELSE Truthy(args.env_irk) /\ ~DenotesKey(Get(args.env_irk))

\* C33: a configuration error (a malformed IRK from --irk, from a line of
\* --irk-file or from BTRPA_IRK; an RSSI window smaller than 1) ends the
\* process with one error report, before the scanner is constructed and
\* before any scanning, GPS or sink activity.
C33_ConfigErrorEndsBeforeScanner ==
    (/\ startup.pc # "start"
     /\ MalformedIrkGiven(startup.args) \/ startup.args.rssi_window < 1) =>
        /\ startup.pc = "exit"
        /\ startup.errors = 1
        /\ ~startup.constructed
        /\ scan = ScanIdle
        /\ ~reader.running
        /\ emitted = 0

\* C34: _mask_irk returns its argument unchanged when it has at most 8
\* characters, and otherwise its first four characters, "...", and its last
\* four; for a 32-character key the result holds no part of the run of the
\* middle 24 characters and is never the full key.
C34_MaskShowsEndsOnly ==
    mask.done =>
        LET s == mask.irk_hex
            r == mask.result
        IN  /\ Len(s) <= 8 => r = s
            /\ Len(s) > 8 =>
                   /\ Len(r) = 11
                   /\ \A i \in 1..4 : r[i] = s[i] /\ r[7 + i] = s[Len(s) - 4 + i]
                   /\ \A i \in 5..7 : r[i] = "."
            /\ Len(s) = 32 =>
                   /\ ~HasSubstring(r, SubSeq(s, 5, 28))
                   /\ ~HasSubstring(r, s)

C34_Witness ==
    /\ mask.done
    /\ Len(mask.irk_hex) = 32
    /\ mask.result = <<"0", "1", "2", "3", ".", ".", ".", "c", "d", "e", "f">>

\* C35: with a window above 1 the RSSI window is updated before the filters
\* run: every event, those the RSSI filter or the name filter then rejects
\* included, appends its RSSI to the window of its address, and the RSSI
\* filter compares the windowed average, not the raw reading, with the
\* threshold.
C35_WindowFedBeforeFilters ==
    [][\A t \in Threads :
          (pc[t] = "filter" /\ pc'[t] # "filter" /\ cfg.rssi_window > 1) =>
              LET addr == Upper(ev[t].address)
                  before == IF addr \in DOMAIN rssi_history
                            THEN rssi_history[addr] ELSE <<>>
                  fed == Append(before, ev[t].rssi)
                  window == LastK(fed, Min(Len(fed), cfg.rssi_window))
                  low == \E m \in (0 - 127)..0 :
                             IsRoundedMean(m, window) /\ m < Get(cfg.min_rssi)
              IN  /\ addr \in DOMAIN rssi_history'
                  /\ rssi_history'[addr] = window
                  /\ ~IsNone(cfg.min_rssi) =>
                         /\ low => pc'[t] = "release"
                         /\ pc'[t] = "branch" => ~low
                         /\ (~low /\ ~NameMismatch(cfg, ev[t].name)) =>
                                pc'[t] = "branch"]_vars

\* an event the filters rejected although its raw reading is above the
\* threshold, its reading in the window all the same
C35_Witness ==
    \E t \in Threads :
        /\ pc[t] = "release"
        /\ cfg.rssi_window > 1
        /\ ~IsNone(cfg.min_rssi)
        /\ ev[t].rssi >= Get(cfg.min_rssi)
        /\ loc[t].avg_rssi # None
        /\ Get(loc[t].avg_rssi) < Get(cfg.min_rssi)
        /\ ~NameMismatch(cfg, ev[t].name)
        /\ rssi_history[Upper(ev[t].address)] = <<RssiWeak, RssiStrong>>
        /\ emitted = 0

\* an event the name filter rejected, its reading in the window all the same
C35_NameWitness ==
    \E t \in Threads :
        /\ pc[t] = "release"
        /\ cfg.rssi_window > 1
        /\ NameMismatch(cfg, ev[t].name)
        /\ loc[t].avg_rssi = Some(RssiStrong)
        /\ rssi_history[Upper(ev[t].address)] = <<RssiStrong>>
        /\ seen_count = 0

\* the poll loop of _scan_loop() is running
InPollLoop == scan.pc \in {"poll", "sleep"}

\* stop() has been requested while the poll loop runs: the loop makes no
\* further turn at its next check, every started scanner is stopped and
\* scan() completes; the time of a timed scan running out ends the loop
\* without stop()
LoopEnds ==
    /\ [][(scan.pc = "poll" /\ ~running) => scan'.pc # "sleep"]_vars
    /\ (InPollLoop /\ ~running) ~>
           (scan.pc = "done" /\ scan.stopped = scan.started
                             /\ scan.started = 1..cfg.adapters)
    /\ (InPollLoop /\ cfg.timed /\ scan.timed_out) ~> ~InPollLoop

C37_ResolvedCountersAgree ==
    /\ rpa_count = Total(resolved_devices)
    /\ \A a \in DOMAIN resolved_devices :
           /\ a \in DOMAIN unique_devices
           /\ unique_devices[a] >= resolved_devices[a]
    /\ rpa_count <= seen_count

\* one address matched twice
C37_Witness ==
    /\ rpa_count = 2
    /\ \E a \in DOMAIN resolved_devices :
           resolved_devices[a] = 2 /\ unique_devices[a] = 2

\* a matched and an unmatched detection
C37_MixedWitness ==
    /\ rpa_count = 1
    /\ seen_count = 2
    /\ Cardinality(DOMAIN unique_devices) = 2

\* C38: every status snapshot the poll loop reads without the detection lock
\* equals the counters as they stand between two whole detection events; in
\* discover-all mode a snapshot never shows a unique_count above
\* total_detections.
C38_SnapshotNeverAhead ==
    (cfg.mode = "all" /\ status.ticks > 0) =>
        status.unique_count <= status.total_detections

\* C39: once the GPS reader has stored a fix the accessor never returns None
\* again: the last fix survives disconnects and reconnects, and detections
\* keep being stamped with it, and can update best_gps, while `connected`
\* is false.
C39_FixNeverLost ==
    /\ [][~IsNone(gps_fix) => ~IsNone(gps_fix')]_vars
    /\ [][\A t \in Threads :
             (pc[t] = "record" /\ pc'[t] = "in_sink" /\ ~IsNone(gps_fix)) =>
                 LET record == Get(loc'[t].record)
                     addr == Upper(ev[t].address)
                 IN  /\ record.latitude = Some(Get(gps_fix).lat)
                     /\ record.longitude = Some(Get(gps_fix).lon)
                     /\ addr \in DOMAIN device_best_gps'
                     /\ (addr \notin DOMAIN device_best_gps
                         \/ ev[t].rssi > device_best_gps[addr].rssi) =>
                            device_best_gps'[addr] =
                                [lat |-> Get(gps_fix).lat, lon |-> Get(gps_fix).lon,
                                 rssi |-> ev[t].rssi]]_vars

\* a second record stamped and the best fix of its address replaced, the
\* reader disconnected and past a reconnect
C39_Witness ==
    \E t \in Threads :
        /\ pc[t] = "in_sink"
        /\ emitted = 1
        /\ ~reader.connected
        /\ reader.sessions >= 2
        /\ ~IsNone(gps_fix)
        /\ Get(loc[t].record).latitude = Some(Get(gps_fix).lat)
        /\ device_best_gps[Upper(ev[t].address)].rssi = RssiStrong
        /\ IsNone(Get(last_record).latitude)

\* C40: after every emit_device on the GUI server, under any interleaving of
\* emit_device calls and state reads, the cache holds at most
\* _GUI_MAX_DEVICES entries, the cache and the timestamp map have the same
\* keys, and the device just emitted is still in the cache.
C40_CacheBoundedAndFresh ==
    /\ [](/\ Cardinality(DOMAIN gui.served) <= _GUI_MAX_DEVICES
          /\ gui.lock = 0 =>
                 /\ Cardinality(DOMAIN gui.devices) <= _GUI_MAX_DEVICES
                 /\ DOMAIN gui.devices = DOMAIN gui.device_ts)
    /\ [][\A t \in Threads :
              (gui.pc[t] = "locked" /\ gui'.pc[t] = "emit") =>
                  gui.data[t].address \in DOMAIN gui'.devices]_vars
====
